---- MODULE Spec2Model ----
(***************************************************************************)
(* Router, cross-database splitter, executor and result normalizer of the  *)
(* NLP-to-SQL gateway (backend/app/core/query_generator.py and             *)
(* backend/app/api/agent.py).                                              *)
(*                                                                         *)
(* Python strings are modelled as sequences of one-character strings, so   *)
(* that substring tests, regular-expression scans, strip() and split()     *)
(* are computed character by character as the code computes them.          *)
(***************************************************************************)
EXTENDS Naturals, Sequences, FiniteSets

(***************************************************************************)
(* Bounds of the model.                                                    *)
(***************************************************************************)
\* most table references (FROM/JOIN operands) in one generated statement
MaxRefs == 3
\* most statements in one batch
MaxBatch == 2
\* most rows the cursor of the orchestrator's executor gives
MaxRows == 2
\* most parts the model's response is made of
MaxFragments == 3
\* most cells (header cells plus data cells) of a tabular raw result
MaxCells == 6
\* most parts of a status-like raw result
MaxParts == 3

(***************************************************************************)
(* Text primitives: the Python str operations the code uses.               *)
(***************************************************************************)
UpperChars == <<"A","B","C","D","E","F","G","H","I","J","K","L","M","N","O",
    "P","Q","R","S","T","U","V","W","X","Y","Z">>
LowerChars == <<"a","b","c","d","e","f","g","h","i","j","k","l","m","n","o",
    "p","q","r","s","t","u","v","w","x","y","z">>
DigitChars == {"0","1","2","3","4","5","6","7","8","9"}

\* the characters str.strip() removes and the regular expression \s matches
Whitespace == {" ", "\t", "\n", "\r"}

UpperSet == {UpperChars[i] : i \in 1..26}
LowerSet == {LowerChars[i] : i \in 1..26}
\* the regular expression \w
WordChars == UpperSet \cup LowerSet \cup DigitChars \cup {"_"}
IsWordChar(c) == c \in WordChars

ToLower == [c \in UpperSet |-> LowerChars[CHOOSE i \in 1..26 : UpperChars[i] = c]]
ToUpper == [c \in LowerSet |-> UpperChars[CHOOSE i \in 1..26 : LowerChars[i] = c]]
LowerChar(c) == IF c \in UpperSet THEN ToLower[c] ELSE c
UpperChar(c) == IF c \in LowerSet THEN ToUpper[c] ELSE c

\* str.lower() and str.upper()
Lower(s) == [i \in 1..Len(s) |-> LowerChar(s[i])]
Upper(s) == [i \in 1..Len(s) |-> UpperChar(s[i])]

\* s[i:] starts with p
StartsAt(s, i, p) ==
    /\ i + Len(p) - 1 <= Len(s)
    /\ \A k \in 1..Len(p) : s[i + k - 1] = p[k]

\* p in s
Contains(s, p) == \E i \in 1..(Len(s) + 1) : StartsAt(s, i, p)

\* str.strip(): leading and trailing whitespace removed
Strip(s) ==
    LET keep == {i \in 1..Len(s) : s[i] \notin Whitespace}
    IN  IF keep = {} THEN <<>>
        ELSE LET lo == CHOOSE i \in keep : \A j \in keep : i <= j
                 hi == CHOOSE i \in keep : \A j \in keep : j <= i
             IN  SubSeq(s, lo, hi)

\* str.rstrip(';') followed by nothing else: trailing c removed
RECURSIVE RStripChar(_, _)
RStripChar(s, c) ==
    IF Len(s) > 0 /\ s[Len(s)] = c THEN RStripChar(SubSeq(s, 1, Len(s) - 1), c)
    ELSE s

\* str.split(sep) for a one-character separator: always at least one piece
RECURSIVE SplitFrom(_, _, _, _)
SplitFrom(s, sep, i, cur) ==
    IF i > Len(s) THEN <<cur>>
    ELSE IF s[i] = sep THEN <<cur>> \o SplitFrom(s, sep, i + 1, <<>>)
    ELSE SplitFrom(s, sep, i + 1, Append(cur, s[i]))
Split(s, sep) == SplitFrom(s, sep, 1, <<>>)

\* sep.join(parts)
RECURSIVE Join(_, _)
Join(sep, parts) ==
    IF Len(parts) = 0 THEN <<>>
    ELSE IF Len(parts) = 1 THEN parts[1]
    ELSE parts[1] \o sep \o Join(sep, Tail(parts))

\* str.replace(p, ""): the non-overlapping occurrences of p, left to right
RECURSIVE RemoveFrom(_, _, _)
RemoveFrom(s, p, i) ==
    IF i > Len(s) THEN <<>>
    ELSE IF StartsAt(s, i, p) THEN RemoveFrom(s, p, i + Len(p))
    ELSE <<s[i]>> \o RemoveFrom(s, p, i + 1)
Remove(s, p) == IF Contains(s, p) THEN RemoveFrom(s, p, 1) ELSE s

\* the concatenation of a sequence of texts
Concat(parts) == Join(<<>>, parts)

\* os.path.basename: what follows the last path separator
Basename(path) ==
    LET seps == {i \in 1..Len(path) : path[i] \in {"/", "\\"}}
    IN  IF seps = {} THEN path
        ELSE SubSeq(path, (CHOOSE i \in seps : \A j \in seps : j <= i) + 1, Len(path))

\* an insertion-ordered dict as a sequence of <<key, value>> pairs
HasKey(d, k) == \E i \in 1..Len(d) : d[i][1] = k
Get(d, k) == d[CHOOSE i \in 1..Len(d) : d[i][1] = k][2]
\* d[k] = v: a present key keeps its position and takes the new value
Put(d, k, v) ==
    IF HasKey(d, k) THEN [i \in 1..Len(d) |-> IF d[i][1] = k THEN <<k, v>> ELSE d[i]]
    ELSE Append(d, <<k, v>>)

(***************************************************************************)
(* Texts of the program.                                                   *)
(***************************************************************************)
CROSS_DATABASE_JOIN_ERROR == <<"C","R","O","S","S","_","D","A","T","A","B",
    "A","S","E","_","J","O","I","N","_","E","R","R","O","R">>
kw_from == <<"f","r","o","m">>
kw_join == <<"j","o","i","n">>
kw_left_join == <<"l","e","f","t"," ","j","o","i","n">>
kw_inner_join == <<"i","n","n","e","r"," ","j","o","i","n">>
kw_cross_join == <<"c","r","o","s","s"," ","j","o","i","n">>
\* the fence characters of a markdown code block; the back quote is written
\* as the character BackQuote
BackQuote == "~"
fence_sql == <<BackQuote,BackQuote,BackQuote,"s","q","l">>
fence == <<BackQuote,BackQuote,BackQuote>>
f_CheckId == <<"C","h","e","c","k","I","d">>
f_Date == <<"D","a","t","e">>
f_Month == <<"M","o","n","t","h">>
f_Year == <<"Y","e","a","r">>
f_DayPart == <<"D","a","y","P","a","r","t">>
f_RevenueCenter == <<"R","e","v","e","n","u","e","C","e","n","t","e","r">>
f_CompanyCode == <<"C","o","m","p","a","n","y","C","o","d","e">>
f_SiteCode == <<"S","i","t","e","C","o","d","e">>
txt_SELECT_ == <<"S","E","L","E","C","T"," ">>
txt_comma_ == <<","," ">>
txt__FROM_ == <<" ","F","R","O","M"," ">>
txt__LIMIT_20 == <<" ","L","I","M","I","T"," ","2","0">>
txt_no_results == <<"N","o"," ","r","e","s","u","l","t","s"," ","f","o","u",
    "n","d",".">>
txt_error_executing == <<"E","r","r","o","r"," ","e","x","e","c","u","t",
    "i","n","g"," ","q","u","e","r","y",":"," ">>
txt_no_databases == <<"N","o"," ","d","a","t","a","b","a","s","e","s"," ",
    "f","o","u","n","d"," ","i","n"," ","w","o","r","k","s","p","a","c",
    "e">>
txt_cross_error == <<"E","r","r","o","r",":"," ","C","r","o","s","s","-",
    "d","a","t","a","b","a","s","e"," ","J","O","I","N"," ","d","e","t","e",
    "c","t","e","d","."," ","S","Q","L","i","t","e"," ","d","o","e","s"," ",
    "n","o","t"," ","s","u","p","p","o","r","t"," ","j","o","i","n","i","n",
    "g"," ","t","a","b","l","e","s"," ","f","r","o","m"," ","d","i","f","f",
    "e","r","e","n","t"," ","d","a","t","a","b","a","s","e","s","."," ","P",
    "l","e","a","s","e"," ","q","u","e","r","y"," ","t","a","b","l","e","s",
    " ","f","r","o","m"," ","t","h","e"," ","s","a","m","e"," ","d","a","t",
    "a","b","a","s","e"," ","o","r"," ","u","s","e"," ","s","e","p","a","r",
    "a","t","e"," ","q","u","e","r","i","e","s",".">>
txt_guidance_head == <<"M","u","l","t","i","-","d","a","t","a","b","a","s",
    "e"," ","q","u","e","r","y"," ","d","e","t","e","c","t","e","d","."," ",
    "H","e","r","e"," ","a","r","e"," ","t","h","e"," ","t","a","b","l","e",
    "s"," ","b","y"," ","d","a","t","a","b","a","s","e",":","\n">>
txt_guidance_db == <<"\n","D","a","t","a","b","a","s","e",":"," ">>
txt_guidance_tables == <<"\n","T","a","b","l","e","s",":"," ">>
txt_guidance_tail == <<"\n","P","l","e","a","s","e"," ","g","e","n","e","r",
    "a","t","e"," ","s","e","p","a","r","a","t","e"," ","q","u","e","r","i",
    "e","s"," ","f","o","r"," ","e","a","c","h"," ","d","a","t","a","b","a",
    "s","e"," ","u","s","i","n","g"," ","c","o","m","m","o","n"," ","f","i",
    "e","l","d","s"," ","f","o","r"," ","c","o","m","p","a","r","i","s","o",
    "n",".">>
txt_database_file == <<"D","a","t","a","b","a","s","e"," ","f","i","l","e",
    " ">>
txt_not_found == <<" ","n","o","t"," ","f","o","u","n","d",".">>
marker_cross_db == <<"C","r","o","s","s","-","d","a","t","a","b","a","s",
    "e"," ","J","O","I","N"," ","d","e","t","e","c","t","e","d">>
msg_error == <<"e","r","r","o","r">>
msg_no_results_found == <<"n","o"," ","r","e","s","u","l","t","s"," ","f",
    "o","u","n","d">>
msg_not_found == <<"n","o","t"," ","f","o","u","n","d">>
msg_empty == <<"e","m","p","t","y">>
txt_Result == <<"R","e","s","u","l","t">>

\* common_fields of the splitter
common_fields ==
    <<f_CheckId, f_Date, f_Month, f_Year, f_DayPart, f_RevenueCenter,
      f_CompanyCode, f_SiteCode>>

(***************************************************************************)
(* The workspace: the database files in the order glob enumerates them,    *)
(* each with its tables in the order sqlite_master lists them.             *)
(* A database is [path |-> text, tables |-> sequence of texts].            *)
(***************************************************************************)
\* get_workspace_databases(): the paths, in enumeration order
get_workspace_databases(dbs) == [i \in 1..Len(dbs) |-> dbs[i].path]

\* for table in tables: table_to_db_mapping[table.lower()] = db_path
RECURSIVE AddTables(_, _, _)
AddTables(mapping, tables, db_path) ==
    IF Len(tables) = 0 THEN mapping
    ELSE AddTables(Put(mapping, Lower(tables[1]), db_path), Tail(tables), db_path)

\* for db_path in available_dbs: ... the table index, in insertion order
RECURSIVE MappingFrom(_, _)
MappingFrom(dbs, mapping) ==
    IF Len(dbs) = 0 THEN mapping
    ELSE MappingFrom(Tail(dbs), AddTables(mapping, dbs[1].tables, dbs[1].path))
table_to_db_mapping(dbs) == MappingFrom(dbs, <<>>)

\* the end of the run of whitespace that starts at k (k itself when there is none)
WsEnd(s, k) ==
    CHOOSE e \in k..(Len(s) + 1) :
        /\ \A j \in k..(e - 1) : s[j] \in Whitespace
        /\ e = Len(s) + 1 \/ s[e] \notin Whitespace
\* the end of the run of \w characters that starts at k
WordEnd(s, k) ==
    CHOOSE e \in k..(Len(s) + 1) :
        /\ \A j \in k..(e - 1) : IsWordChar(s[j])
        /\ e = Len(s) + 1 \/ ~IsWordChar(s[e])

\* kw\s+(\w+) matched at position i: does it match, what it captures, where it ends
MatchKeyword(s, i, kw) ==
    IF ~StartsAt(s, i, kw) THEN [ok |-> FALSE, word |-> <<>>, next |-> i + 1]
    ELSE LET w == WsEnd(s, i + Len(kw))
             e == WordEnd(s, w)
         IN  IF w > i + Len(kw) /\ e > w
             THEN [ok |-> TRUE, word |-> SubSeq(s, w, e - 1), next |-> e]
             ELSE [ok |-> FALSE, word |-> <<>>, next |-> i + 1]

\* re.findall(r'from\s+(\w+)|join\s+(\w+)', query_lower), each match reduced to
\* the group it captured: the non-overlapping matches, left to right
RECURSIVE FindTablesFrom(_, _)
FindTablesFrom(s, i) ==
    IF i > Len(s) THEN <<>>
    ELSE LET mf == MatchKeyword(s, i, kw_from)
             mj == MatchKeyword(s, i, kw_join)
         IN  IF mf.ok THEN <<mf.word>> \o FindTablesFrom(s, mf.next)
             ELSE IF mj.ok THEN <<mj.word>> \o FindTablesFrom(s, mj.next)
             ELSE FindTablesFrom(s, i + 1)

\* a variant that keeps the first match only, as re.search would
tables_in_query_first_match(query_lower) ==
    IF FindTablesFrom(query_lower, 1) = <<>> THEN <<>>
    ELSE <<FindTablesFrom(query_lower, 1)[1]>>

\* re.findall(r'from\s+(\w+)|join\s+(\w+)', query_lower), the non-empty groups
tables_in_query(query_lower) == FindTablesFrom(query_lower, 1)

\* any(join_type in query_lower for join_type in [...])
is_join_query(query_lower) ==
    \E join_type \in {kw_join, kw_left_join, kw_inner_join, kw_cross_join} :
        Contains(query_lower, join_type)

\* databases_needed: the databases of the extracted tables the index knows
databases_needed(query_lower, mapping) ==
    LET found == tables_in_query(query_lower)
    IN  {Get(mapping, found[i]) : i \in {j \in 1..Len(found) : HasKey(mapping, found[j])}}

\* for table_name, db_path in table_to_db_mapping.items():
\*     if table_name in query_lower: return db_path
first_table_match(query_lower, mapping) ==
    LET hits == {i \in 1..Len(mapping) : Contains(query_lower, mapping[i][1])}
    IN  IF hits = {} THEN 0 ELSE CHOOSE i \in hits : \A j \in hits : i <= j

\* a variant whose fallback is the last database enumerated, not the first
determine_database_last_default(sql_query, dbs) ==
    LET query_lower == Lower(sql_query)
        available_dbs == get_workspace_databases(dbs)
        mapping == table_to_db_mapping(dbs)
        hit == first_table_match(query_lower, mapping)
    IN  IF is_join_query(query_lower)
           /\ Cardinality(databases_needed(query_lower, mapping)) > 1
        THEN [raised |-> FALSE, value |-> CROSS_DATABASE_JOIN_ERROR]
        ELSE IF hit # 0 THEN [raised |-> FALSE, value |-> mapping[hit][2]]
        ELSE IF Len(available_dbs) > 0
        THEN [raised |-> FALSE, value |-> available_dbs[Len(available_dbs)]]
        ELSE [raised |-> TRUE, value |-> txt_no_databases]

\* QuerySQLitePlugin.__determine_database__: [raised, value], value being the
\* database path, the cross-database sentinel or the exception's message
__determine_database__(sql_query, dbs) ==
    LET query_lower == Lower(sql_query)
        available_dbs == get_workspace_databases(dbs)
        mapping == table_to_db_mapping(dbs)
        hit == first_table_match(query_lower, mapping)
    IN  IF is_join_query(query_lower)
           /\ Cardinality(databases_needed(query_lower, mapping)) > 1
        THEN [raised |-> FALSE, value |-> CROSS_DATABASE_JOIN_ERROR]
        ELSE IF hit # 0 THEN [raised |-> FALSE, value |-> mapping[hit][2]]
        ELSE IF Len(available_dbs) > 0 THEN [raised |-> FALSE, value |-> available_dbs[1]]
        ELSE [raised |-> TRUE, value |-> txt_no_databases]

\* result[db_path].append(table) for the extracted tables the index knows
RECURSIVE GroupTables(_, _, _)
GroupTables(found, mapping, result) ==
    IF Len(found) = 0 THEN result
    ELSE IF ~HasKey(mapping, found[1]) THEN GroupTables(Tail(found), mapping, result)
    ELSE LET db_path == Get(mapping, found[1])
             sofar == IF HasKey(result, db_path) THEN Get(result, db_path) ELSE <<>>
         IN  GroupTables(Tail(found), mapping,
                         Put(result, db_path, Append(sofar, found[1])))

\* QuerySQLitePlugin.get_tables_by_database: an ordered dict db_path -> tables
get_tables_by_database(sql_query, dbs) ==
    GroupTables(tables_in_query(Lower(sql_query)), table_to_db_mapping(dbs), <<>>)

\* f"SELECT {', '.join(common_fields)} FROM {table} LIMIT 20"
separate_query(table) ==
    txt_SELECT_ \o Join(txt_comma_, common_fields) \o txt__FROM_ \o table \o txt__LIMIT_20

\* for db_path, tables in tables_by_db.items(): for table in tables: ...
RECURSIVE SeparateQueries(_)
SeparateQueries(tables_by_db) ==
    IF Len(tables_by_db) = 0 THEN <<>>
    ELSE [i \in 1..Len(tables_by_db[1][2]) |-> separate_query(tables_by_db[1][2][i])]
         \o SeparateQueries(Tail(tables_by_db))

\* QuerySQLitePlugin.generate_separate_queries_for_databases
generate_separate_queries_for_databases(original_query, dbs) ==
    LET tables_by_db == get_tables_by_database(original_query, dbs)
    IN  IF Len(tables_by_db) <= 1 THEN <<original_query>>
        ELSE SeparateQueries(tables_by_db)

\* QuerySQLitePlugin.__clean_sql_query__
__clean_sql_query__(sql_query) == Strip(Remove(Remove(sql_query, fence_sql), fence))

(***************************************************************************)
(* The executor.  What a cursor gives for a statement depends on the rows  *)
(* stored in the database, which the model leaves open: an execution       *)
(* either raises a driver error or returns a description and rows.         *)
(* A value is [null |-> BOOLEAN, text |-> text].                           *)
(***************************************************************************)
\* str(val)
Str(val) == IF val.null THEN <<"N","o","n","e">> ELSE val.text

\* "\t".join(col_names) + "\n" + "\n".join("\t".join(str(val) ...) for row in rows)
format_rows(col_names, rows) ==
    Join(<<"\t">>, col_names) \o <<"\n">>
    \o Join(<<"\n">>, [r \in 1..Len(rows) |->
                          Join(<<"\t">>, [c \in 1..Len(rows[r]) |-> Str(rows[r][c])])])

\* the guidance text of the multi-database branch
RECURSIVE GuidanceBody(_)
GuidanceBody(tables_by_db) ==
    IF Len(tables_by_db) = 0 THEN <<>>
    ELSE txt_guidance_db \o Basename(tables_by_db[1][1]) \o txt_guidance_tables
         \o Join(txt_comma_, tables_by_db[1][2]) \o <<"\n">>
         \o GuidanceBody(Tail(tables_by_db))
guidance(tables_by_db) ==
    txt_guidance_head \o GuidanceBody(tables_by_db) \o txt_guidance_tail

\* os.path.exists(db_path): the files glob enumerated are there
path_exists(db_path, dbs) == \E i \in 1..Len(dbs) : dbs[i].path = db_path

\* conn.close() is reached only when cursor.execute and fetchall return; after
\* an exception the connection is left to the garbage collector, which may or
\* may not have finalized it: the connections the call can leave open
left_open(outcome, db_path) ==
    IF outcome.error THEN {<<db_path>>, <<>>} ELSE {<<>>}

\* a variant without the test `if not rows`
cursor_result_unchecked_rows(outcome) ==
    IF outcome.error THEN txt_error_executing \o outcome.message
    ELSE format_rows(outcome.col_names, outcome.rows)

\* what run_query returns once cursor.execute has given an outcome
cursor_result(outcome) ==
    IF outcome.error THEN txt_error_executing \o outcome.message
    ELSE IF Len(outcome.rows) = 0 THEN txt_no_results
    ELSE format_rows(outcome.col_names, outcome.rows)

\* QuerySQLitePlugin.query_sqlite (run_query): every [result, executed,
\* left_open] the call can end with, result being the text returned, executed
\* the <<statement, database>> handed to cursor.execute, if any, and left_open
\* the connections it opened and did not close
query_sqlite(sql_query, dbs, outcomes) ==
    LET query == __clean_sql_query__(sql_query)
        routed == __determine_database__(query, dbs)
        db_path == routed.value
        tables_by_db == get_tables_by_database(query, dbs)
    IN  IF routed.raised
        THEN {[result |-> txt_error_executing \o routed.value, executed |-> <<>>,
               left_open |-> <<>>]}
        ELSE IF db_path = CROSS_DATABASE_JOIN_ERROR
        THEN {[result |-> IF Len(tables_by_db) > 1 THEN guidance(tables_by_db)
                          ELSE txt_cross_error,
               executed |-> <<>>, left_open |-> <<>>]}
        ELSE IF ~path_exists(db_path, dbs)
        THEN {[result |-> txt_database_file \o db_path \o txt_not_found,
               executed |-> <<>>, left_open |-> <<>>]}
        ELSE UNION {{[result |-> cursor_result(outcome),
                      executed |-> <<[query |-> query, db |-> db_path]>>,
                      left_open |-> left] : left \in left_open(outcome, db_path)} :
                       outcome \in outcomes}

(***************************************************************************)
(* The result normalizer of POST /agent (run_agent).  A raw result is      *)
(* [is_str |-> BOOLEAN, text |-> text]; an entry of processed_data is      *)
(* [kind |-> "record", row |-> ordered dict, raw |-> <<>>] or, when the    *)
(* code appends the result itself, [kind |-> "raw", row |-> <<>>,          *)
(* raw |-> the result].                                                    *)
(***************************************************************************)
Record(row) == [kind |-> "record", row |-> row, raw |-> <<>>]
RawEntry(result) == [kind |-> "raw", row |-> <<>>, raw |-> result]

\* for i, header in enumerate(headers):
\*     row[header.strip()] = values[i] if i < len(values) else ''
RECURSIVE ZipRow(_, _, _, _)
ZipRow(headers, values, i, row) ==
    IF i > Len(headers) THEN row
    ELSE ZipRow(headers, values, i + 1,
                Put(row, Strip(headers[i]), IF i <= Len(values) THEN values[i] ELSE <<>>))

\* the tab branch: the records of a tab-separated text
tab_rows(text) ==
    LET lines == Split(Strip(text), "\n")
        headers == Split(lines[1], "\t")
    IN  IF Len(lines) > 1
        THEN [k \in 1..(Len(lines) - 1) |->
                 Record(ZipRow(headers, Split(lines[k + 1], "\t"), 1, <<>>))]
        ELSE <<>>

\* the newline branch: header and value, several lines, or one line
newline_rows(result) ==
    LET lines == Split(Strip(result.text), "\n")
        header == Strip(lines[1])
        value == Strip(lines[2])
    IN  IF Len(lines) = 2
        THEN IF header # <<>> /\ value # <<>> THEN <<Record(<< <<header, value>> >>)>>
             ELSE <<>>
        ELSE IF Len(lines) > 2
        THEN <<Record(<< <<txt_Result, Strip(result.text)>> >>)>>
        ELSE <<RawEntry(result)>>

\* any(error_msg in result.lower() for error_msg in [...])
is_error_text(text) ==
    \E error_msg \in {msg_error, msg_no_results_found, msg_not_found, msg_empty} :
        Contains(Lower(text), error_msg)

\* a variant that tests for a tab before it tests for the marker
normalize_result_tab_first(result, data, errors) ==
    IF result.is_str /\ Contains(result.text, <<"\t">>)
    THEN [data |-> data \o tab_rows(result.text), errors |-> errors]
    ELSE IF result.is_str /\ Contains(result.text, marker_cross_db)
    THEN [data |-> data, errors |-> Append(errors, result.text)]
    ELSE IF result.is_str /\ Contains(result.text, <<"\n">>)
    THEN [data |-> data \o newline_rows(result), errors |-> errors]
    ELSE IF result.is_str
    THEN IF is_error_text(result.text)
         THEN [data |-> data, errors |-> Append(errors, result.text)]
         ELSE [data |-> Append(data, Record(<< <<txt_Result, result.text>> >>)),
               errors |-> errors]
    ELSE [data |-> Append(data, RawEntry(result)), errors |-> errors]

\* the body of `for result in results:` in run_agent: the two lists afterwards
normalize_result(result, data, errors) ==
    IF result.is_str /\ Contains(result.text, marker_cross_db)
    THEN [data |-> data, errors |-> Append(errors, result.text)]
    ELSE IF result.is_str /\ Contains(result.text, <<"\t">>)
    THEN [data |-> data \o tab_rows(result.text), errors |-> errors]
    ELSE IF result.is_str /\ Contains(result.text, <<"\n">>)
            /\ ~Contains(result.text, <<"\t">>)
    THEN [data |-> data \o newline_rows(result), errors |-> errors]
    ELSE IF result.is_str
    THEN IF is_error_text(result.text)
         THEN [data |-> data, errors |-> Append(errors, result.text)]
         ELSE [data |-> Append(data, Record(<< <<txt_Result, result.text>> >>)),
               errors |-> errors]
    ELSE [data |-> Append(data, RawEntry(result)), errors |-> errors]

(***************************************************************************)
(* The response of POST /agent.  The answer is [kind, records]: kind       *)
(* "multi_database" is the fixed text of the has_cross_db_error branch,    *)
(* "description" the text generate_data_description returned, "fallback"   *)
(* the fixed "Successfully retrieved {records} records ..." text and       *)
(* "no_data" the fixed "No data was found ..." text.                       *)
(***************************************************************************)
\* any(isinstance(result, str) and "Cross-database JOIN detected" in result ...)
has_cross_db_error(results) ==
    \E i \in 1..Len(results) :
        results[i].is_str /\ Contains(results[i].text, marker_cross_db)

\* "\n".join of the non-empty sql.rstrip(';').strip()
combined_sql(sql_queries) ==
    Join(<<"\n">>,
         SelectSeq([i \in 1..Len(sql_queries) |-> Strip(RStripChar(sql_queries[i], ";"))],
                   LAMBDA cleaned_sql : cleaned_sql # <<>>))

\* data_description; described tells whether generate_data_description
\* returned a description (and not an exception or "Error generating ...")
data_description(results, processed_data, described) ==
    [kind |-> IF has_cross_db_error(results) THEN "multi_database"
              ELSE IF processed_data = <<>> THEN "no_data"
              ELSE IF described THEN "description" ELSE "fallback",
     records |-> Len(processed_data)]

\* JSONResponse(content=response_data) of the branch `if queries_and_results:`
agent_response(sql_queries, results, processed_data, described) ==
    [status_code |-> 200,
     content |->
        [sql_query |-> combined_sql(sql_queries),
         data |-> processed_data,
         answer |-> data_description(results, processed_data, described),
         original_answer |->
            [queries |-> Len(sql_queries), results |-> Len(processed_data)]]]

(***************************************************************************)
(* The multi-agent pipeline: MultiAgentOrchestrator.process_question and   *)
(* POST /multi-agent (run_multi_agent).  A result of the orchestrator is   *)
(* an ordered dict with plain strings as keys.                             *)
(***************************************************************************)
\* TableDataManager.table_configs: the configured tables
table_configs ==
    {"Vw_SI_SalesDetails", "Vw_SI_SalesSummary", "View_DiscountDetails", "DayPartMst",
     "PaperchaseCategoryMaster", "MenuItemCategoryMst", "RevenueCenterMst"}

\* row_dict[column] = str(row[i]) if row[i] is not None else ""
RECURSIVE row_dict(_, _, _, _)
row_dict(columns, row, i, dict) ==
    IF i > Len(columns) THEN dict
    ELSE row_dict(columns, row, i + 1,
                  Put(dict, columns[i], IF row[i].null THEN <<>> ELSE row[i].text))

\* QueryExecutorPlugin.execute_query: the list of row dicts; the empty list
\* when there is no row and when the execution fails
execute_query(sql_query, outcome) ==
    IF outcome.error \/ outcome.rows = <<>> THEN <<>>
    ELSE [r \in 1..Len(outcome.rows) |->
             row_dict(outcome.col_names, outcome.rows[r], 1, <<>>)]

\* a variant without the validation of the cleaned response
stage_reached_unvalidated(routing, response) ==
    IF ~routing.has_table THEN "exception"
    ELSE IF routing.selected_table \notin table_configs THEN "no_table"
    ELSE "execute"

\* the stages of process_question up to the execution: "exception" when
\* routing_result has no 'selected_table', "no_table" when the table is not
\* configured, "not_sql" when the cleaned response starts with neither SELECT
\* nor WITH, "execute" otherwise
stage_reached(routing, response) ==
    LET sql_query == __clean_sql_query__(Strip(response))
    IN  IF ~routing.has_table THEN "exception"
        ELSE IF routing.selected_table \notin table_configs THEN "no_table"
        ELSE IF /\ ~StartsAt(Upper(Strip(sql_query)), 1, <<"S","E","L","E","C","T">>)
                /\ ~StartsAt(Upper(Strip(sql_query)), 1, <<"W","I","T","H">>)
        THEN "not_sql"
        ELSE "execute"

\* MultiAgentOrchestrator.process_question: the dict it returns
process_question(user_question, routing, response, outcome) ==
    LET sql_query == __clean_sql_query__(Strip(response))
        stage == stage_reached(routing, response)
    IN  IF stage = "exception"
        THEN << <<"error", <<"Error processing question: ", "'selected_table'">> >>,
                <<"user_question", user_question>> >>
        ELSE IF stage = "no_table"
        THEN << <<"error", <<"Table ", routing.selected_table,
                             " not found or accessible">> >>,
                <<"routing_decision", routing>> >>
        ELSE IF stage = "not_sql"
        THEN << <<"error", "Generated response is not valid SQL. Please try again.">>,
                <<"routing_decision", routing>>,
                <<"selected_table", routing.selected_table>>,
                <<"raw_response", sql_query>> >>
        ELSE << <<"routing_decision", routing>>,
                <<"selected_table", routing.selected_table>>,
                <<"sql_query", sql_query>>,
                <<"data", [is_str |-> FALSE, text |-> <<>>,
                           records |-> execute_query(sql_query, outcome)]>>,
                <<"description", "description">> >>

\* run_multi_agent_system: no question, or the orchestrator's result
run_multi_agent_system(question_given, routing, response, outcome) ==
    IF ~question_given THEN << <<"error", "No question provided">> >>
    ELSE process_question("question", routing, response, outcome)

\* result.get(key, default)
get_or(dict, key, default) == IF HasKey(dict, key) THEN Get(dict, key) ELSE default

\* the normalizer of run_multi_agent on query_result: the two lists
multi_normalize_result(query_result, data, errors) ==
    IF query_result.is_str /\ is_error_text(query_result.text)
    THEN [data |-> data, errors |-> Append(errors, query_result.text)]
    ELSE IF query_result.is_str /\ Contains(query_result.text, <<"\t">>)
    THEN [data |-> data \o tab_rows(query_result.text), errors |-> errors]
    ELSE IF query_result.is_str /\ Contains(query_result.text, <<"\n">>)
    THEN [data |-> data \o newline_rows(query_result), errors |-> errors]
    ELSE IF query_result.is_str
    THEN [data |-> Append(data, Record(<< <<txt_Result, query_result.text>> >>)),
          errors |-> errors]
    ELSE [data |-> Append(data, RawEntry(query_result)), errors |-> errors]

\* a variant that answers a result with an 'error' entry like any other
run_multi_agent_no_error_test(result) ==
    LET query_result == get_or(result, "query_result", [is_str |-> TRUE, text |-> <<>>])
        normalized == multi_normalize_result(query_result, <<>>, <<>>)
    IN  [data |-> normalized.data, errors |-> normalized.errors,
         response |->
            [status_code |-> 200,
             content |->
                [success |-> TRUE,
                 routing_decision |-> get_or(result, "routing_decision", <<>>),
                 selected_table |-> get_or(result, "selected_table", ""),
                 sql_query |-> get_or(result, "sql_query", ""),
                 data |-> normalized.data,
                 answer |-> get_or(result, "description", ""),
                 description |-> get_or(result, "description", ""),
                 error_messages |-> normalized.errors,
                 agent_system |-> "multi-agent-orchestration"]]]

\* run_multi_agent: the two lists and the JSONResponse for a result of
\* run_multi_agent_system
run_multi_agent(result) ==
    LET query_result == get_or(result, "query_result", [is_str |-> TRUE, text |-> <<>>])
        normalized == multi_normalize_result(query_result, <<>>, <<>>)
        description == get_or(result, "description", "")
    IN  IF HasKey(result, "error")
        THEN [data |-> <<>>, errors |-> <<>>,
              response |-> [status_code |-> 400,
                            content |-> [error |-> Get(result, "error"),
                                         success |-> FALSE]]]
        ELSE [data |-> normalized.data, errors |-> normalized.errors,
              response |->
                 [status_code |-> 200,
                  content |->
                     [success |-> TRUE,
                      routing_decision |-> get_or(result, "routing_decision", <<>>),
                      selected_table |-> get_or(result, "selected_table", ""),
                      sql_query |-> get_or(result, "sql_query", ""),
                      data |-> normalized.data,
                      answer |-> description,
                      description |-> description,
                      error_messages |-> normalized.errors,
                      agent_system |-> "multi-agent-orchestration"]]]

(***************************************************************************)
(* The extraction of the batch from the model's response                   *)
(* (run_agent_and_get_queries_and_results, after the model has answered).  *)
(***************************************************************************)
kw_select == <<"s","e","l","e","c","t">>
kw_limit == <<"l","i","m","i","t">>
txt_SELECT_upper == <<"S","E","L","E","C","T">>
txt_comment == <<"-","-">>
txt_header == <<"#","#","#">>
txt_Query_ == <<"Q","u","e","r","y"," ">>
txt_To_compare == <<"T","o"," ","c","o","m","p","a","r","e">>
txt_I_will_generate == <<"I"," ","w","i","l","l"," ","g","e","n","e","r",
    "a","t","e">>
txt_These_queries == <<"T","h","e","s","e"," ","q","u","e","r","i","e","s">>

\* the end of the run of \d characters that starts at k
DigitsEnd(s, k) ==
    CHOOSE e \in k..(Len(s) + 1) :
        /\ \A j \in k..(e - 1) : s[j] \in DigitChars
        /\ e = Len(s) + 1 \/ s[e] \notin DigitChars

\* re.sub(p + r'\s*', '', s): every occurrence of p, with the whitespace
\* that follows it, removed
RECURSIVE sub_with_space(_, _, _)
sub_with_space(s, p, i) ==
    IF i > Len(s) THEN <<>>
    ELSE IF StartsAt(s, i, p) THEN sub_with_space(s, p, WsEnd(s, i + Len(p)))
    ELSE <<s[i]>> \o sub_with_space(s, p, i + 1)

\* the position of the first line feed at or after k, 0 when there is none
line_end(s, k) ==
    LET feeds == {j \in k..Len(s) : s[j] = "\n"}
    IN  IF feeds = {} THEN 0 ELSE CHOOSE j \in feeds : \A m \in feeds : j <= m

\* re.sub(p + r'.*?\n', '', s), and re.sub(p + r'\d+:.*?\n', '', s) when
\* numbered: what starts with p is removed up to and with its line feed; a
\* last line without a line feed stays
RECURSIVE sub_line(_, _, _, _)
sub_line(s, p, numbered, i) ==
    IF i > Len(s) THEN <<>>
    ELSE LET after == i + Len(p)
             digits == DigitsEnd(s, after)
             body == IF ~StartsAt(s, i, p) THEN 0
                     ELSE IF ~numbered THEN after
                     ELSE IF digits > after /\ digits <= Len(s) /\ s[digits] = ":"
                          THEN digits + 1
                     ELSE 0
             feed == IF body = 0 THEN 0 ELSE line_end(s, body)
         IN  IF feed > 0 THEN sub_line(s, p, numbered, feed + 1)
             ELSE <<s[i]>> \o sub_line(s, p, numbered, i + 1)

\* raw_sql = result.content.content.strip(), the markdown fences and the
\* explaining lines removed
clean_response(content) ==
    LET stripped == Strip(content)
        no_fence_sql == sub_with_space(stripped, fence_sql, 1)
        no_fence == sub_with_space(no_fence_sql, fence, 1)
        no_header == sub_line(no_fence, txt_header, FALSE, 1)
        no_query == sub_line(no_header, txt_Query_, TRUE, 1)
        no_compare == sub_line(no_query, txt_To_compare, FALSE, 1)
        no_will == sub_line(no_compare, txt_I_will_generate, FALSE, 1)
    IN  sub_line(no_will, txt_These_queries, FALSE, 1)

\* LIMIT\s+\d+ matched at position j of the lowered text: where it ends
\* (the position after its last digit), 0 when it does not match
limit_end(low, j) ==
    LET spaces == j + Len(kw_limit)
        number == WsEnd(low, spaces)
        e == DigitsEnd(low, number)
    IN  IF StartsAt(low, j, kw_limit) /\ number > spaces /\ e > number THEN e
        ELSE 0

\* re.findall(r'SELECT.*?LIMIT\s+\d+', s, re.IGNORECASE | re.DOTALL): from
\* each SELECT to the nearest LIMIT with its number, whatever lies between,
\* the search going on after each match
RECURSIVE sql_matches_from(_, _, _)
sql_matches_from(s, low, i) ==
    IF i > Len(s) THEN <<>>
    ELSE LET limits == IF StartsAt(low, i, kw_select)
                       THEN {j \in (i + Len(kw_select))..Len(s) : limit_end(low, j) > 0}
                       ELSE {}
         IN  IF limits = {} THEN sql_matches_from(s, low, i + 1)
             ELSE LET j == CHOOSE m \in limits : \A n \in limits : m <= n
                      e == limit_end(low, j)
                  IN  <<SubSeq(s, i, e - 1)>> \o sql_matches_from(s, low, e)

\* the fallback: raw_sql.split(";"), the blank pieces, the comments and the
\* pieces without SELECT left out
split_statements(raw) ==
    LET kept == SelectSeq(Split(raw, ";"),
                    LAMBDA q : /\ Strip(q) # <<>>
                               /\ ~StartsAt(Lower(Strip(q)), 1, txt_comment)
                               /\ Contains(Upper(q), txt_SELECT_upper))
    IN  [k \in 1..Len(kept) |-> Strip(kept[k])]

\* sql_queries: the matches of the pattern, each stripped and closed with a
\* semicolon, or the fallback when the pattern matches nothing
extract_sql_queries(raw) ==
    LET sql_matches == sql_matches_from(raw, Lower(raw), 1)
    IN  IF sql_matches # <<>>
        THEN [k \in 1..Len(sql_matches) |-> Strip(sql_matches[k]) \o <<";">>]
        ELSE split_statements(raw)

(***************************************************************************)
(* Inputs of the batch loop: workspaces, generated statements and what     *)
(* the cursors give.                                                       *)
(***************************************************************************)
path_a == <<"w","/","a",".","d","b">>
path_b == <<"w","/","b",".","d","b">>
t_Dates == <<"D","a","t","e","s">>
t_Date == <<"D","a","t","e">>
txt_SELECT_1 == <<"S","E","L","E","C","T"," ","1">>
txt_SELECT_star_FROM_ == <<"S","E","L","E","C","T"," ","*"," ","F","R","O",
    "M"," ">>
txt__INNER_JOIN_ == <<" ","I","N","N","E","R"," ","J","O","I","N"," ">>
c_CheckId == <<"C","h","e","c","k","I","d">>
c_Date == <<"D","a","t","e">>
v_K1 == <<"K","-","1">>
v_date == <<"0","1","-","0","1","-","2","0","2","4">>
e_no_such_table == <<"n","o"," ","s","u","c","h"," ","t","a","b","l","e">>

\* the table names that occur in the workspaces: Date is a substring of Dates
\* and one of the splitter's common fields
TableNames == {t_Date, t_Dates}

\* the sequences of distinct table names: what one database can hold
RECURSIVE DistinctSeqs(_)
DistinctSeqs(S) ==
    {<<>>} \cup UNION {{<<x>> \o rest : rest \in DistinctSeqs(S \ {x})} : x \in S}
TableLists == DistinctSeqs(TableNames)

\* the database files of the workspace, in the order glob lists them
DbFiles == <<path_a, path_b>>

\* the workspaces: none, one or both of the files, each with its tables
Workspaces ==
    UNION {[1..n -> TableLists] : n \in 0..Len(DbFiles)}
Databases(tables_of) ==
    [i \in 1..Len(tables_of) |-> [path |-> DbFiles[i], tables |-> tables_of[i]]]

\* the sequences over S of length at most n
SeqsUpTo(S, n) == UNION {[1..k -> S] : k \in 0..n}

\* a generated statement over the referenced tables: comma-separated FROM list
\* or INNER JOIN chain
RECURSIVE JoinChain(_, _)
JoinChain(refs, sep) ==
    IF Len(refs) = 0 THEN <<>>
    ELSE sep \o refs[1] \o JoinChain(Tail(refs), sep)
Statement(refs, comma) ==
    IF Len(refs) = 0 THEN txt_SELECT_1
    ELSE txt_SELECT_star_FROM_ \o refs[1]
         \o JoinChain(Tail(refs), IF comma THEN txt_comma_ ELSE txt__INNER_JOIN_)
Statements ==
    {Statement(refs, comma) : refs \in SeqsUpTo(TableNames, MaxRefs), comma \in BOOLEAN}

\* what cursor.execute and fetchall give: a driver error, no row, or rows
Text(s) == [null |-> FALSE, text |-> s]
CursorOutcomes ==
    { [error |-> TRUE, message |-> e_no_such_table, col_names |-> <<>>, rows |-> <<>>],
      [error |-> FALSE, message |-> <<>>, col_names |-> <<c_CheckId, c_Date>>, rows |-> <<>>],
      [error |-> FALSE, message |-> <<>>, col_names |-> <<c_CheckId, c_Date>>,
       rows |-> << <<Text(v_K1), Text(v_date)>> >>] }

(***************************************************************************)
(* Inputs of the normalizer: tabular texts (lines of tab-separated cells)  *)
(* and status-like texts (a few parts put together).                       *)
(***************************************************************************)
h_a == <<"a">>
h_b == <<" ","b">>
d_1 == <<"1">>
txt_NO_RESULTS_upper == <<"N","O"," ","R","E","S","U","L","T","S"," ","F",
    "O","U","N","D">>
txt_ok == <<"o","k">>

\* header cells: empty, plain, and with surrounding whitespace
HeaderCells == {<<>>, h_a, h_b}
\* data cells: empty or not
DataCells == {<<>>, d_1}

\* the non-empty sequences over S of length at most n
Lines(S, n) == UNION {[1..k -> S] : k \in 1..n}

\* the sequences of data lines with at most n cells in all
RECURSIVE RowSeqs(_)
RowSeqs(n) ==
    {<<>>} \cup UNION {{<<r>> \o rest : rest \in RowSeqs(n - Len(r))} :
                          r \in Lines(DataCells, n)}

\* a header line followed by data lines, MaxCells cells at most
Tables ==
    UNION {{<<h>> \o rows : rows \in RowSeqs(MaxCells - Len(h))} :
              h \in Lines(HeaderCells, MaxCells)}

\* the text of a table: cells joined by tabs, lines by newlines
TableText(table) ==
    Join(<<"\n">>, [i \in 1..Len(table) |-> Join(<<"\t">>, table[i])])

\* the parts of a status-like text
StatusParts ==
    {marker_cross_db, txt_no_results, txt_NO_RESULTS_upper, txt_ok, <<"\t">>, <<"\n">>}
StatusTexts == {Concat(parts) : parts \in Lines(StatusParts, MaxParts)}

RawTexts == {TableText(t) : t \in Tables} \cup StatusTexts
StrResult(text) == [is_str |-> TRUE, text |-> text]

\* raw results that are not strings: lists of records (ordered dicts), as
\* the orchestrator's execute_query builds them
row_1 == << <<c_CheckId, v_K1>>, <<c_Date, v_date>> >>
row_2 == << <<c_CheckId, v_K1>>, <<c_Date, <<>>>> >>
RecordLists == {<<>>, <<row_1>>, <<row_1, row_2>>}
ListResult(records) == [is_str |-> FALSE, text |-> <<>>, records |-> records]

(***************************************************************************)
(* State: the batch loop of run_agent_and_get_queries_and_results and the  *)
(* normalizing loop of run_agent.                                          *)
(***************************************************************************)
VARIABLES
    dbs,                 \* the workspace's databases
    sql_queries,         \* the batch of statements
    idx,                 \* the statement the batch loop is at
    db_path,             \* what __determine_database__ gave for that statement
    separate_queries,    \* the expansions still to execute
    queries_and_results, \* the pairs appended so far
    executed,            \* every [query, db] given to cursor.execute
    open_connections,    \* the databases of the connections opened and not closed
    pc,                  \* "extract", "loop", "separate", "direct", "done", "raised";
                         \* "split", "await_separate", "await_direct"; "idle"
    raw_sql,             \* the text the SQL agent answered with
    results,             \* the raw results the normalizer is given
    res_idx,             \* the result the normalizing loop is at
    processed_data,      \* the entries appended so far
    error_messages,      \* the texts appended so far
    npc,                 \* "normalize", "done", "responded"; "idle"
    response_data,       \* the content of the JSON response; <<>> before it is built
    orchestrator_result, \* what run_multi_agent_system returned; <<>> before it has
    executor_output,     \* what execute_query returned to the orchestrator
    mpc,                 \* "orchestrate", "normalize", "responded"; "idle"; and
                         \* the stage process_question is at
    in_flight,           \* the statements given to a worker thread and not yet returned
    submitted,           \* every statement query_sqlite was called with, in order
    db_ops,              \* every blocking database operation: what and on which thread
    stages,              \* the stages process_question has gone through
    frame                \* the local variables of process_question

batch_vars ==
    <<dbs, sql_queries, idx, db_path, separate_queries, queries_and_results, executed,
      open_connections, pc, raw_sql>>
norm_vars == <<results, res_idx, processed_data, error_messages, npc, response_data>>
multi_vars == <<orchestrator_result, executor_output, mpc>>
thread_vars == <<in_flight, submitted, db_ops>>
stage_vars == <<stages, frame>>
vars == <<batch_vars, norm_vars, multi_vars, thread_vars, stage_vars>>

BatchIdle ==
    /\ dbs = <<>>
    /\ sql_queries = <<>>
    /\ idx = 1
    /\ db_path = <<>>
    /\ separate_queries = <<>>
    /\ queries_and_results = <<>>
    /\ executed = <<>>
    /\ open_connections = <<>>
    /\ pc = "idle"
    /\ raw_sql = <<>>

NormIdle ==
    /\ results = <<>>
    /\ res_idx = 1
    /\ processed_data = <<>>
    /\ error_messages = <<>>
    /\ npc = "idle"
    /\ response_data = <<>>

MultiIdle ==
    /\ orchestrator_result = <<>>
    /\ executor_output = <<>>
    /\ mpc = "idle"

ThreadIdle ==
    /\ in_flight = <<>>
    /\ submitted = <<>>
    /\ db_ops = <<>>

StageIdle ==
    /\ stages = <<>>
    /\ frame = <<>>

(***************************************************************************)
(* The batch loop of run_agent_and_get_queries_and_results.                *)
(***************************************************************************)
Init ==
    /\ dbs \in {Databases(w) : w \in Workspaces}
    /\ sql_queries \in {<<s>> : s \in Statements}
    /\ idx = 1
    /\ db_path = <<>>
    /\ separate_queries = <<>>
    /\ queries_and_results = <<>>
    /\ executed = <<>>
    /\ open_connections = <<>>
    /\ pc = "loop"
    /\ raw_sql = <<>>
    /\ NormIdle
    /\ MultiIdle
    /\ ThreadIdle
    /\ StageIdle

\* for sql in sql_queries: db_path = query_executor.__determine_database__(sql);
\* an exception leaves the loop
Classify ==
    /\ pc = "loop"
    /\ idx <= Len(sql_queries)
    /\ LET routed == __determine_database__(sql_queries[idx], dbs)
       IN  /\ db_path' = routed.value
           /\ IF routed.raised
              THEN /\ pc' = "raised"
                   /\ UNCHANGED separate_queries
              ELSE IF routed.value = CROSS_DATABASE_JOIN_ERROR
              THEN /\ separate_queries' =
                          generate_separate_queries_for_databases(sql_queries[idx], dbs)
                   /\ pc' = "separate"
              ELSE /\ pc' = "direct"
                   /\ UNCHANGED separate_queries
    /\ UNCHANGED <<dbs, sql_queries, idx, queries_and_results, executed,
                   open_connections, raw_sql>>
    /\ UNCHANGED <<norm_vars, multi_vars, thread_vars, stage_vars>>

\* for separate_sql in separate_queries:
\*     output = await query_executor.query_sqlite(separate_sql); append the pair
ExecuteSeparate ==
    /\ pc = "separate"
    /\ Len(separate_queries) > 0
    /\ \E ran \in query_sqlite(separate_queries[1], dbs, CursorOutcomes) :
          /\ queries_and_results' =
                 Append(queries_and_results, <<separate_queries[1], ran.result>>)
          /\ executed' = executed \o ran.executed
          /\ open_connections' = open_connections \o ran.left_open
    /\ separate_queries' = Tail(separate_queries)
    /\ IF Len(separate_queries) = 1
       THEN pc' = "loop" /\ idx' = idx + 1
       ELSE pc' = "separate" /\ UNCHANGED idx
    /\ UNCHANGED <<dbs, sql_queries, db_path, raw_sql>>
    /\ UNCHANGED <<norm_vars, multi_vars, thread_vars, stage_vars>>

\* a variant that puts the pair in front of the pairs appended so far
ExecuteDirect_prepend ==
    /\ pc = "direct"
    /\ \E ran \in query_sqlite(sql_queries[idx], dbs, CursorOutcomes) :
          /\ queries_and_results' =
                 <<<<sql_queries[idx], ran.result>>>> \o queries_and_results
          /\ executed' = executed \o ran.executed
          /\ open_connections' = open_connections \o ran.left_open
    /\ pc' = "loop"
    /\ idx' = idx + 1
    /\ UNCHANGED <<dbs, sql_queries, db_path, separate_queries, raw_sql>>
    /\ UNCHANGED <<norm_vars, multi_vars, thread_vars, stage_vars>>

\* output = await query_executor.query_sqlite(sql); append the pair
ExecuteDirect ==
    /\ pc = "direct"
    /\ \E ran \in query_sqlite(sql_queries[idx], dbs, CursorOutcomes) :
          /\ queries_and_results' =
                 Append(queries_and_results, <<sql_queries[idx], ran.result>>)
          /\ executed' = executed \o ran.executed
          /\ open_connections' = open_connections \o ran.left_open
    /\ pc' = "loop"
    /\ idx' = idx + 1
    /\ UNCHANGED <<dbs, sql_queries, db_path, separate_queries, raw_sql>>
    /\ UNCHANGED <<norm_vars, multi_vars, thread_vars, stage_vars>>

\* return queries_and_results
Return ==
    /\ pc = "loop"
    /\ idx > Len(sql_queries)
    /\ pc' = "done"
    /\ UNCHANGED <<dbs, sql_queries, idx, db_path, separate_queries,
                   queries_and_results, executed, open_connections, raw_sql>>
    /\ UNCHANGED <<norm_vars, multi_vars, thread_vars, stage_vars>>

Next == Classify \/ ExecuteSeparate \/ ExecuteDirect \/ Return

Spec == Init /\ [][Next]_vars

\* the batch loop on batches of several statements: a statement without a
\* table, one on a single table and an INNER JOIN of the two tables, over
\* the tables in one database or in two
BatchStatements ==
    {Statement(<<>>, FALSE), Statement(<<t_Date>>, FALSE),
     Statement(<<t_Dates, t_Date>>, FALSE)}
BatchInit ==
    /\ dbs \in {Databases(<<<<t_Date>>, <<t_Dates>>>>),
                Databases(<<<<t_Date, t_Dates>>, <<>>>>)}
    /\ sql_queries \in SeqsUpTo(BatchStatements, MaxBatch)
    /\ idx = 1
    /\ db_path = <<>>
    /\ separate_queries = <<>>
    /\ queries_and_results = <<>>
    /\ executed = <<>>
    /\ open_connections = <<>>
    /\ pc = "loop"
    /\ raw_sql = <<>>
    /\ NormIdle
    /\ MultiIdle
    /\ ThreadIdle
    /\ StageIdle
BatchSpec == BatchInit /\ [][Next]_vars

(***************************************************************************)
(* From the model's response to the batch, and then the batch loop.        *)
(***************************************************************************)
txt_DROP_TABLE_Date == <<"D","R","O","P"," ","T","A","B","L","E"," ","D",
    "a","t","e">>
txt_comment_line == <<"-","-"," ","x">>
txt__OFFSET_1 == <<" ","O","F","F","S","E","T"," ","1">>
txt_header_line == <<"#","#","#"," ","S","Q","L","\n">>
\* what the model's response is made of: statements without and with a
\* LIMIT, one of them across the two databases, a statement that is not a
\* SELECT, a comment, a clause that follows a LIMIT, a separator and a header
ResponseParts ==
    {txt_SELECT_1 \o <<";">>,
     txt_DROP_TABLE_Date \o <<";">>,
     txt_comment_line \o <<";">>,
     Statement(<<t_Date>>, FALSE) \o txt__LIMIT_20,
     Statement(<<t_Dates, t_Date>>, FALSE) \o txt__LIMIT_20,
     txt__OFFSET_1,
     <<";">>,
     txt_header_line}
ExtractInit ==
    /\ dbs = Databases(<<<<t_Date>>, <<t_Dates>>>>)
    /\ raw_sql \in {Concat(parts) : parts \in SeqsUpTo(ResponseParts, MaxFragments)}
    /\ sql_queries = <<>>
    /\ idx = 1
    /\ db_path = <<>>
    /\ separate_queries = <<>>
    /\ queries_and_results = <<>>
    /\ executed = <<>>
    /\ open_connections = <<>>
    /\ pc = "extract"
    /\ NormIdle
    /\ MultiIdle
    /\ ThreadIdle
    /\ StageIdle

\* raw_sql = result.content.content.strip(), cleaned; sql_queries = the
\* statements extracted from it
Extract ==
    /\ pc = "extract"
    /\ raw_sql' = clean_response(raw_sql)
    /\ sql_queries' = extract_sql_queries(raw_sql')
    /\ pc' = "loop"
    /\ UNCHANGED <<dbs, idx, db_path, separate_queries, queries_and_results,
                   executed, open_connections>>
    /\ UNCHANGED <<norm_vars, multi_vars, thread_vars, stage_vars>>

ExtractNext == Extract \/ Classify \/ ExecuteSeparate \/ ExecuteDirect \/ Return

ExtractSpec == ExtractInit /\ [][ExtractNext]_vars

(***************************************************************************)
(* The batch loop with its awaits and threads: the loop's own calls run on *)
(* the event loop, query_sqlite hands run_query to a worker thread         *)
(* (asyncio.to_thread) and the loop goes on when it has returned.  Tables  *)
(* may be added and dropped by others at any moment.                       *)
(***************************************************************************)
\* a blocking database operation and the thread it runs on
DbOp(op, thread) == [op |-> op, thread |-> thread]

\* the database operations of run_query for a statement: the table index of
\* __determine_database__, that of get_tables_by_database when the statement
\* is found to be a cross-database join, and the execution, if it comes to it
run_query_ops(sql_query, databases, ran) ==
    <<DbOp("table_index", "worker")>>
    \o (IF __determine_database__(__clean_sql_query__(sql_query), databases).value
              = CROSS_DATABASE_JOIN_ERROR
        THEN <<DbOp("table_index", "worker")>> ELSE <<>>)
    \o (IF ran.executed # <<>> THEN <<DbOp("execute", "worker")>> ELSE <<>>)

\* the states of the tables the requests of the model meet: Date and Dates
\* in two databases, Dates dropped, Dates moved next to Date
SchemaVersions ==
    {Databases(<<<<t_Date>>, <<t_Dates>>>>), Databases(<<<<t_Date>>, <<>>>>),
     Databases(<<<<t_Date, t_Dates>>, <<>>>>)}
ThreadStatements == {Statement(<<t_Date>>, FALSE), Statement(<<t_Dates, t_Date>>, FALSE)}
\* what a cursor gives in these requests: an error, or a row
ThreadOutcomes == {outcome \in CursorOutcomes : outcome.error \/ outcome.rows # <<>>}

ThreadInit ==
    /\ dbs \in SchemaVersions
    /\ sql_queries \in SeqsUpTo(ThreadStatements, MaxBatch)
    /\ idx = 1
    /\ db_path = <<>>
    /\ separate_queries = <<>>
    /\ queries_and_results = <<>>
    /\ executed = <<>>
    /\ open_connections = <<>>
    /\ pc = "loop"
    /\ raw_sql = <<>>
    /\ NormIdle
    /\ MultiIdle
    /\ ThreadIdle
    /\ StageIdle

\* db_path = query_executor.__determine_database__(sql): called by the loop
\* itself, on the event loop
LoopClassify ==
    /\ pc = "loop"
    /\ idx <= Len(sql_queries)
    /\ LET routed == __determine_database__(sql_queries[idx], dbs)
       IN  /\ db_path' = routed.value
           /\ pc' = IF routed.raised THEN "raised"
                    ELSE IF routed.value = CROSS_DATABASE_JOIN_ERROR THEN "split"
                    ELSE "direct"
    /\ db_ops' = Append(db_ops, DbOp("table_index", "event_loop"))
    /\ UNCHANGED <<dbs, sql_queries, idx, separate_queries, queries_and_results,
                   executed, open_connections, raw_sql, in_flight, submitted>>
    /\ UNCHANGED <<norm_vars, multi_vars, stage_vars>>

\* separate_queries = query_executor.generate_separate_queries_for_databases(...):
\* called by the loop itself, with a table index of its own
LoopSplit ==
    /\ pc = "split"
    /\ separate_queries' = generate_separate_queries_for_databases(sql_queries[idx], dbs)
    /\ db_ops' = Append(db_ops, DbOp("table_index", "event_loop"))
    /\ pc' = "separate"
    /\ UNCHANGED <<dbs, sql_queries, idx, db_path, queries_and_results, executed,
                   open_connections, raw_sql, in_flight, submitted>>
    /\ UNCHANGED <<norm_vars, multi_vars, stage_vars>>

\* await query_executor.query_sqlite(...): run_query is handed to a worker
\* thread and the loop waits for it
Submit ==
    /\ pc \in {"separate", "direct"}
    /\ LET sql == IF pc = "separate" THEN separate_queries[1] ELSE sql_queries[idx]
       IN  /\ in_flight' = Append(in_flight, sql)
           /\ submitted' = Append(submitted, sql)
    /\ pc' = IF pc = "separate" THEN "await_separate" ELSE "await_direct"
    /\ UNCHANGED <<dbs, sql_queries, idx, db_path, separate_queries,
                   queries_and_results, executed, open_connections, raw_sql, db_ops>>
    /\ UNCHANGED <<norm_vars, multi_vars, stage_vars>>

\* a variant that hands a statement whose execution failed to the worker
\* thread once more instead of recording its result
Resume_retry ==
    /\ pc \in {"await_separate", "await_direct"}
    /\ \E ran \in query_sqlite(in_flight[1], dbs, ThreadOutcomes) :
          /\ executed' = executed \o ran.executed
          /\ open_connections' = open_connections \o ran.left_open
          /\ db_ops' = db_ops \o run_query_ops(in_flight[1], dbs, ran)
          /\ IF StartsAt(ran.result, 1, txt_error_executing)
             THEN /\ submitted' = Append(submitted, in_flight[1])
                  /\ UNCHANGED <<queries_and_results, in_flight, separate_queries,
                                 pc, idx>>
             ELSE /\ queries_and_results' =
                         Append(queries_and_results, <<in_flight[1], ran.result>>)
                  /\ in_flight' = Tail(in_flight)
                  /\ UNCHANGED submitted
                  /\ IF pc = "await_separate"
                     THEN /\ separate_queries' = Tail(separate_queries)
                          /\ IF Len(separate_queries) = 1
                             THEN pc' = "loop" /\ idx' = idx + 1
                             ELSE pc' = "separate" /\ UNCHANGED idx
                     ELSE /\ pc' = "loop"
                          /\ idx' = idx + 1
                          /\ UNCHANGED separate_queries
    /\ UNCHANGED <<dbs, sql_queries, db_path, raw_sql>>
    /\ UNCHANGED <<norm_vars, multi_vars, stage_vars>>

\* run_query has returned on its thread: the loop appends the pair and goes
\* on, to the next expansion or the next statement
Resume ==
    /\ pc \in {"await_separate", "await_direct"}
    /\ \E ran \in query_sqlite(in_flight[1], dbs, ThreadOutcomes) :
          /\ queries_and_results' =
                 Append(queries_and_results, <<in_flight[1], ran.result>>)
          /\ executed' = executed \o ran.executed
          /\ open_connections' = open_connections \o ran.left_open
          /\ db_ops' = db_ops \o run_query_ops(in_flight[1], dbs, ran)
    /\ in_flight' = Tail(in_flight)
    /\ IF pc = "await_separate"
       THEN /\ separate_queries' = Tail(separate_queries)
            /\ IF Len(separate_queries) = 1
               THEN pc' = "loop" /\ idx' = idx + 1
               ELSE pc' = "separate" /\ UNCHANGED idx
       ELSE /\ pc' = "loop"
            /\ idx' = idx + 1
            /\ UNCHANGED separate_queries
    /\ UNCHANGED <<dbs, sql_queries, db_path, raw_sql, submitted>>
    /\ UNCHANGED <<norm_vars, multi_vars, stage_vars>>

\* return queries_and_results
LoopReturn ==
    /\ pc = "loop"
    /\ idx > Len(sql_queries)
    /\ pc' = "done"
    /\ UNCHANGED <<dbs, sql_queries, idx, db_path, separate_queries,
                   queries_and_results, executed, open_connections, raw_sql,
                   thread_vars>>
    /\ UNCHANGED <<norm_vars, multi_vars, stage_vars>>

\* somebody adds, drops or moves a table while the request is served
SchemaChange ==
    /\ pc \notin {"done", "raised"}
    /\ dbs' \in SchemaVersions \ {dbs}
    /\ UNCHANGED <<sql_queries, idx, db_path, separate_queries, queries_and_results,
                   executed, open_connections, pc, raw_sql, thread_vars>>
    /\ UNCHANGED <<norm_vars, multi_vars, stage_vars>>

ThreadNext ==
    LoopClassify \/ LoopSplit \/ Submit \/ Resume \/ LoopReturn \/ SchemaChange

ThreadSpec == ThreadInit /\ [][ThreadNext]_vars

(***************************************************************************)
(* The batch loop on statements with selected columns, predicates and      *)
(* groupings.                                                              *)
(***************************************************************************)
txt_star == <<"*">>
txt_SUM_Year == <<"S","U","M","(","Y","e","a","r",")">>
txt_valid_from == <<"v","a","l","i","d","_","f","r","o","m">>
txt__WHERE == <<"W","H","E","R","E"," ","Y","e","a","r"," ","="," ","1">>
txt__GROUP_BY == <<"G","R","O","U","P"," ","B","Y"," ","M","o","n","t","h">>
\* what a generated statement selects, and what follows its tables
SelectedColumns == {txt_star, txt_SUM_Year, txt_valid_from}
Clauses == {<<>>, txt__WHERE, txt__GROUP_BY}
\* SELECT <columns> FROM <table> INNER JOIN <table> ... <clause>
ClauseStatement(columns, refs, clause) ==
    txt_SELECT_ \o columns \o txt__FROM_ \o refs[1]
    \o JoinChain(Tail(refs), txt__INNER_JOIN_)
    \o (IF clause = <<>> THEN <<>> ELSE <<" ">> \o clause)
ClauseRefs == {<<t_Date>>, <<t_Dates, t_Date>>}
ClauseStatements ==
    {ClauseStatement(columns, refs, clause) :
        columns \in SelectedColumns, refs \in ClauseRefs, clause \in Clauses}

\* two statements of one request, over Date and Dates in two databases
ClauseInit ==
    /\ dbs = Databases(<<<<t_Date>>, <<t_Dates>>>>)
    /\ sql_queries \in [1..2 -> ClauseStatements]
    /\ idx = 1
    /\ db_path = <<>>
    /\ separate_queries = <<>>
    /\ queries_and_results = <<>>
    /\ executed = <<>>
    /\ open_connections = <<>>
    /\ pc = "loop"
    /\ raw_sql = <<>>
    /\ NormIdle
    /\ MultiIdle
    /\ ThreadIdle
    /\ StageIdle
ClauseSpec == ClauseInit /\ [][Next]_vars

(***************************************************************************)
(* The normalizing loop of run_agent, on any raw result.                   *)
(***************************************************************************)
NormInit ==
    /\ sql_queries = <<txt_SELECT_1>>
    /\ dbs = <<>>
    /\ idx = 1
    /\ db_path = <<>>
    /\ separate_queries = <<>>
    /\ queries_and_results = <<>>
    /\ executed = <<>>
    /\ open_connections = <<>>
    /\ pc = "idle"
    /\ raw_sql = <<>>
    /\ results \in {<<StrResult(t)>> : t \in RawTexts}
                    \cup {<<ListResult(l)>> : l \in RecordLists}
    /\ res_idx = 1
    /\ processed_data = <<>>
    /\ error_messages = <<>>
    /\ npc = "normalize"
    /\ response_data = <<>>
    /\ MultiIdle
    /\ ThreadIdle
    /\ StageIdle

\* for result in results: ...
Normalize ==
    /\ npc = "normalize"
    /\ res_idx <= Len(results)
    /\ LET after == normalize_result(results[res_idx], processed_data, error_messages)
       IN  /\ processed_data' = after.data
           /\ error_messages' = after.errors
    /\ res_idx' = res_idx + 1
    /\ UNCHANGED <<results, npc, response_data>>
    /\ UNCHANGED <<batch_vars, multi_vars, thread_vars, stage_vars>>

\* the loop is over
NormalizeDone ==
    /\ npc = "normalize"
    /\ res_idx > Len(results)
    /\ npc' = "done"
    /\ UNCHANGED <<results, res_idx, processed_data, error_messages, response_data>>
    /\ UNCHANGED <<batch_vars, multi_vars, thread_vars, stage_vars>>

\* the description is generated and response_data is built and returned
Respond ==
    /\ npc = "done"
    /\ \E described \in BOOLEAN :
          response_data' = agent_response(sql_queries, results, processed_data, described)
    /\ npc' = "responded"
    /\ UNCHANGED <<results, res_idx, processed_data, error_messages>>
    /\ UNCHANGED <<batch_vars, multi_vars, thread_vars, stage_vars>>

NormNext == Normalize \/ NormalizeDone \/ Respond

NormSpec == NormInit /\ [][NormNext]_vars

(***************************************************************************)
(* POST /agent from the batch to the response: the batch loop, then        *)
(* run_agent of agent.py on the pairs the loop returned.                   *)
(***************************************************************************)
\* sql_queries = [pair[0] for pair in queries_and_results]
pair_queries(pairs) == [i \in 1..Len(pairs) |-> pairs[i][1]]

\* results = [pair[1] for pair in queries_and_results]
pair_results(pairs) == [i \in 1..Len(pairs) |-> StrResult(pairs[i][2])]

\* response_data of the branch without pairs
empty_agent_response ==
    [status_code |-> 200,
     content |->
        [sql_query |-> <<>>,
         data |-> <<>>,
         answer |-> [kind |-> "no_results", records |-> 0],
         original_answer |-> [queries |-> 0, results |-> 0]]]

\* raise HTTPException(status_code=500, detail="Internal server error")
agent_failure == [status_code |-> 500, content |-> <<>>]

AgentInit ==
    /\ dbs \in {Databases(<<<<t_Date>>, <<t_Dates>>>>),
                Databases(<<<<t_Date, t_Dates>>, <<>>>>),
                <<>>}
    /\ sql_queries \in SeqsUpTo(BatchStatements, MaxBatch)
    /\ idx = 1
    /\ db_path = <<>>
    /\ separate_queries = <<>>
    /\ queries_and_results = <<>>
    /\ executed = <<>>
    /\ open_connections = <<>>
    /\ pc = "loop"
    /\ raw_sql = <<>>
    /\ NormIdle
    /\ MultiIdle
    /\ ThreadIdle
    /\ StageIdle

\* queries_and_results = await run_agent_and_get_queries_and_results(...)
\* and, if there are pairs, the two lists made of them
Collect ==
    /\ pc = "done"
    /\ npc = "idle"
    /\ IF queries_and_results # <<>>
       THEN /\ results' = pair_results(queries_and_results)
            /\ npc' = "normalize"
            /\ UNCHANGED response_data
       ELSE /\ response_data' = empty_agent_response
            /\ npc' = "responded"
            /\ UNCHANGED results
    /\ UNCHANGED <<res_idx, processed_data, error_messages>>
    /\ UNCHANGED <<batch_vars, multi_vars, thread_vars, stage_vars>>

\* except Exception: the batch loop raised
CollectRaised ==
    /\ pc = "raised"
    /\ npc = "idle"
    /\ response_data' = agent_failure
    /\ npc' = "responded"
    /\ UNCHANGED <<results, res_idx, processed_data, error_messages>>
    /\ UNCHANGED <<batch_vars, multi_vars, thread_vars, stage_vars>>

\* the description is generated and response_data is built from the pairs
RespondPairs ==
    /\ npc = "done"
    /\ \E described \in BOOLEAN :
          response_data' = agent_response(pair_queries(queries_and_results), results,
                                          processed_data, described)
    /\ npc' = "responded"
    /\ UNCHANGED <<results, res_idx, processed_data, error_messages>>
    /\ UNCHANGED <<batch_vars, multi_vars, thread_vars, stage_vars>>

AgentNext ==
    \/ Classify \/ ExecuteSeparate \/ ExecuteDirect \/ Return
    \/ Collect \/ CollectRaised
    \/ Normalize \/ NormalizeDone \/ RespondPairs

AgentSpec == AgentInit /\ [][AgentNext]_vars

(***************************************************************************)
(* One request to POST /multi-agent.                                       *)
(***************************************************************************)
\* what the router agent answers: no 'selected_table', a configured table,
\* another table
RoutingDecisions ==
    {[has_table |-> FALSE, selected_table |-> ""],
     [has_table |-> TRUE, selected_table |-> "Vw_SI_SalesSummary"],
     [has_table |-> TRUE, selected_table |-> "Vw_GI_SalesSummary"]}
\* what the SQL agent answers
SqlResponses ==
    {txt_SELECT_1, Lower(txt_SELECT_1), <<" ">> \o txt_SELECT_1 \o <<"\n">>,
     <<"W","I","T","H"," ","x">>, txt_ok}
\* what the cursor of execute_query gives: an error, or rows of one or two
\* columns with texts, empty texts and NULLs
OrchestratorValues == {Text(v_K1), Text(<<>>), [null |-> TRUE, text |-> <<>>]}
OrchestratorOutcomes ==
    {[error |-> TRUE, message |-> e_no_such_table, col_names |-> <<>>, rows |-> <<>>]}
    \cup UNION {{[error |-> FALSE, message |-> <<>>, col_names |-> cols, rows |-> rows] :
                    rows \in SeqsUpTo([1..Len(cols) -> OrchestratorValues], MaxRows)} :
                   cols \in {<<c_CheckId>>, <<c_CheckId, c_Date>>}}

MultiInit ==
    /\ BatchIdle
    /\ NormIdle
    /\ orchestrator_result = <<>>
    /\ executor_output = <<>>
    /\ mpc = "orchestrate"
    /\ ThreadIdle
    /\ StageIdle

\* result = await run_multi_agent_system(request.question, ...)
ProcessQuestion ==
    /\ mpc = "orchestrate"
    /\ \E question_given \in BOOLEAN, routing \in RoutingDecisions,
          response \in SqlResponses, outcome \in OrchestratorOutcomes :
          /\ orchestrator_result' =
                 run_multi_agent_system(question_given, routing, response, outcome)
          /\ executor_output' =
                 IF question_given /\ stage_reached(routing, response) = "execute"
                 THEN execute_query(__clean_sql_query__(Strip(response)), outcome)
                 ELSE <<>>
    /\ mpc' = "normalize"
    /\ UNCHANGED <<batch_vars, norm_vars, thread_vars, stage_vars>>

\* the rest of run_multi_agent: the result is normalized and answered
RunMultiAgent ==
    /\ mpc = "normalize"
    /\ LET answered == run_multi_agent(orchestrator_result)
       IN  /\ processed_data' = answered.data
           /\ error_messages' = answered.errors
           /\ response_data' = answered.response
    /\ mpc' = "responded"
    /\ UNCHANGED <<results, res_idx, npc>>
    /\ UNCHANGED <<batch_vars, orchestrator_result, executor_output>>
    /\ UNCHANGED <<thread_vars, stage_vars>>

MultiNext == ProcessQuestion \/ RunMultiAgent

MultiSpec == MultiInit /\ [][MultiNext]_vars

(***************************************************************************)
(* POST /multi-agent stage by stage: run_multi_agent_system, the stages of *)
(* process_question, each with what can happen in it, and the answer.      *)
(***************************************************************************)
\* the local variables of process_question, by name
Local(name) == Get(frame, name)

StageInit ==
    /\ BatchIdle
    /\ NormIdle
    /\ ThreadIdle
    /\ orchestrator_result = <<>>
    /\ executor_output = <<>>
    /\ mpc = "enter"
    /\ stages = <<>>
    /\ frame = <<>>

\* result = await run_multi_agent_system(...): no question gives the error
\* result at once; MultiAgentOrchestrator() may raise, which the endpoint's
\* except clause answers with status 500
Enter ==
    /\ mpc = "enter"
    /\ \E question_given, constructed \in BOOLEAN :
          IF ~question_given
          THEN /\ orchestrator_result' =
                      run_multi_agent_system(FALSE, <<>>, <<>>, <<>>)
               /\ mpc' = "normalize"
               /\ UNCHANGED <<frame, response_data>>
          ELSE IF ~constructed
          THEN /\ frame' = Put(frame, "raised", TRUE)
               /\ response_data' =
                      [status_code |-> 500,
                       content |-> [error |-> "Internal server error: ...",
                                    success |-> FALSE]]
               /\ mpc' = "responded"
               /\ UNCHANGED orchestrator_result
          ELSE /\ mpc' = "route"
               /\ UNCHANGED <<frame, response_data, orchestrator_result>>
    /\ UNCHANGED <<results, res_idx, processed_data, error_messages, npc>>
    /\ UNCHANGED <<batch_vars, thread_vars, executor_output, stages>>

\* routing_result = await self.router_agent.route_question(user_question);
\* selected_table = routing_result['selected_table'], whose KeyError ends in
\* the except clause
Route ==
    /\ mpc = "route"
    /\ \E routing \in RoutingDecisions :
          /\ frame' = Put(frame, "routing_result", routing)
          /\ IF routing.has_table
             THEN mpc' = "context" /\ UNCHANGED orchestrator_result
             ELSE /\ orchestrator_result' =
                         process_question("question", routing, <<>>, <<>>)
                  /\ mpc' = "normalize"
    /\ stages' = Append(stages, "route")
    /\ UNCHANGED <<batch_vars, norm_vars, thread_vars, executor_output>>

\* table_context = self.table_manager.get_table_context(selected_table): for
\* a configured table the schema and the sample rows are read, in the
\* coroutine itself; no context ends the request with an error result
TableContext ==
    /\ mpc = "context"
    /\ IF Local("routing_result").selected_table \in table_configs
       THEN /\ db_ops' = db_ops \o <<DbOp("schema", "event_loop"),
                                     DbOp("sample_data", "event_loop")>>
            /\ mpc' = "generate"
            /\ UNCHANGED orchestrator_result
       ELSE /\ orchestrator_result' =
                   process_question("question", Local("routing_result"), <<>>, <<>>)
            /\ mpc' = "normalize"
            /\ UNCHANGED db_ops
    /\ stages' = Append(stages, "table_context")
    /\ UNCHANGED <<batch_vars, norm_vars, executor_output, frame, in_flight, submitted>>

\* sql_result = await sql_agent.get_response(...); sql_query = its text,
\* stripped and cleaned; a failure of the call ends in the except clause
GenerateSql ==
    /\ mpc = "generate"
    /\ \E answered \in BOOLEAN, response \in SqlResponses :
          IF answered
          THEN /\ frame' = Put(frame, "sql_response", response)
               /\ mpc' = "validate"
               /\ UNCHANGED orchestrator_result
          ELSE /\ orchestrator_result' =
                      << <<"error", <<"Error processing question: ", "...">> >>,
                         <<"user_question", "question">> >>
               /\ mpc' = "normalize"
               /\ UNCHANGED frame
    /\ stages' = Append(stages, "sql_generation")
    /\ UNCHANGED <<batch_vars, norm_vars, thread_vars, executor_output>>

\* if not sql_query.strip().upper().startswith('SELECT') and not ...('WITH'):
\* return the error result
Validate ==
    /\ mpc = "validate"
    /\ IF stage_reached(Local("routing_result"), Local("sql_response")) = "execute"
       THEN mpc' = "execute" /\ UNCHANGED orchestrator_result
       ELSE /\ orchestrator_result' =
                   process_question("question", Local("routing_result"),
                                    Local("sql_response"), <<>>)
            /\ mpc' = "normalize"
    /\ stages' = Append(stages, "validation")
    /\ UNCHANGED <<batch_vars, norm_vars, thread_vars, executor_output, frame>>

\* query_result = await self.query_executor.execute_query(sql_query)
ExecuteQuery ==
    /\ mpc = "execute"
    /\ \E outcome \in OrchestratorOutcomes :
          /\ frame' = Put(frame, "outcome", outcome)
          /\ executor_output' =
                 execute_query(__clean_sql_query__(Strip(Local("sql_response"))),
                               outcome)
    /\ db_ops' = Append(db_ops, DbOp("execute", "worker"))
    /\ stages' = Append(stages, "execution")
    /\ mpc' = "describe"
    /\ UNCHANGED <<batch_vars, norm_vars, orchestrator_result, in_flight, submitted>>

\* description = await self.generate_data_description(...); return the result
Describe ==
    /\ mpc = "describe"
    /\ orchestrator_result' =
           process_question("question", Local("routing_result"),
                            Local("sql_response"), Local("outcome"))
    /\ stages' = Append(stages, "description")
    /\ mpc' = "normalize"
    /\ UNCHANGED <<batch_vars, norm_vars, thread_vars, executor_output, frame>>

StageNext ==
    \/ Enter \/ Route \/ TableContext \/ GenerateSql \/ Validate
    \/ ExecuteQuery \/ Describe \/ RunMultiAgent

StageSpec == StageInit /\ [][StageNext]_vars

(***************************************************************************)
(* Vocabulary of the properties.                                           *)
(***************************************************************************)
\* the databases (positions in dbs) that hold a table of this name
Holders(table) ==
    {i \in 1..Len(dbs) :
        \E k \in 1..Len(dbs[i].tables) : Lower(dbs[i].tables[k]) = Lower(table)}
\* the database the table index knows the table to live in: the last one
\* enumerated that holds it
KnownDb(table) == CHOOSE i \in Holders(table) : \A j \in Holders(table) : j <= i

\* the table references a generated statement was written with
RefsOf(sql) ==
    CHOOSE refs \in SeqsUpTo(TableNames, MaxRefs) : \E comma \in BOOLEAN :
        sql = Statement(refs, comma)
IsInnerJoin(sql) ==
    \E refs \in SeqsUpTo(TableNames, MaxRefs) :
        Len(refs) >= 2 /\ sql = Statement(refs, FALSE)
RefSet(sql) == {RefsOf(sql)[i] : i \in 1..Len(RefsOf(sql))}

\* an INNER JOIN of tables of which two are known to live in different databases
IsCrossInnerJoin(sql) ==
    /\ IsInnerJoin(sql)
    /\ \E t1, t2 \in RefSet(sql) :
          /\ Holders(t1) # {} /\ Holders(t2) # {}
          /\ KnownDb(t1) # KnownDb(t2)

\* the statement the batch loop has classified and not yet passed
Classified == pc \in {"separate", "direct"}

C2_SplitYieldsOneStatementPerTable ==
    (/\ pc = "separate"
     /\ db_path = CROSS_DATABASE_JOIN_ERROR
     /\ queries_and_results = <<>>
     /\ Cardinality(RefSet(sql_queries[idx])) = 2)
    => /\ Len(separate_queries) = 2
       /\ {separate_queries[i] : i \in 1..Len(separate_queries)}
              = {separate_query(Lower(t)) : t \in RefSet(sql_queries[idx])}

\* C3: every statement the splitter produced for a table is executed against
\* a database that holds that table.
C3_SplitRunsInItsOwnDatabase ==
    \A e \in 1..Len(executed) : \A t \in TableNames :
        executed[e].query = separate_query(Lower(t)) =>
            \E i \in Holders(t) : dbs[i].path = executed[e].db

\* C4: a statement that references only tables of one database D resolves to D.
C4_SingleDatabaseStatementResolvesToIt ==
    \A d \in 1..Len(dbs) :
        (/\ Classified
         /\ RefSet(sql_queries[idx]) # {}
         /\ \A t \in RefSet(sql_queries[idx]) : Holders(t) = {d})
        => db_path = dbs[d].path

\* no table name of any database occurs in the statement
NoKnownTableIn(sql) ==
    \A i \in 1..Len(dbs) : \A k \in 1..Len(dbs[i].tables) :
        ~Contains(Lower(sql), Lower(dbs[i].tables[k]))

\* C5 as claimed: the router never raises.
C5_RouterNeverRaises == pc # "raised"

\* C5 as amended: the router raises exactly when no database is discovered;
\* with at least one database it returns a result, and a statement containing
\* no table name known to the index resolves to the first database enumerated.
C5_RouterRaisesOnlyWithoutDatabases ==
    /\ pc = "raised" => Len(dbs) = 0
    /\ (pc # "loop" /\ Len(dbs) = 0) => pc = "raised"
    /\ (Classified /\ NoKnownTableIn(sql_queries[idx])) => db_path = dbs[1].path

\* with two databases, a statement without any known table went to the first
C5_Witness ==
    /\ pc = "done"
    /\ Len(dbs) = 2
    /\ NoKnownTableIn(sql_queries[1])
    /\ Len(executed) = 1
    /\ executed[1].db = dbs[1].path

\* the lines of a raw text and the cells of a line, as written
RawLines(text) == Split(text, "\n")
Cells(line) == Split(line, "\t")
HeaderOf(text) == Cells(RawLines(text)[1])
\* the data rows: the lines after the header line
DataRows(text) == [k \in 1..(Len(RawLines(text)) - 1) |-> Cells(RawLines(text)[k + 1])]
HasMarker(text) == Contains(text, marker_cross_db)
TrimmedHeader(text) == [j \in 1..Len(HeaderOf(text)) |-> Strip(HeaderOf(text)[j])]
\* the keys and the values of a record, in order
KeysOf(entry) == [j \in 1..Len(entry.row) |-> entry.row[j][1]]
ValuesOf(entry) == [j \in 1..Len(entry.row) |-> entry.row[j][2]]

\* a tab-delimited text with H distinct header columns, every data row having
\* exactly H fields
IsRectangular(text) ==
    /\ Contains(text, <<"\t">>)
    /\ ~HasMarker(text)
    /\ \A i, j \in 1..Len(HeaderOf(text)) :
          TrimmedHeader(text)[i] = TrimmedHeader(text)[j] => i = j
    /\ \A k \in 1..Len(DataRows(text)) : Len(DataRows(text)[k]) = Len(HeaderOf(text))

\* the one raw result the normalizing loop was given has been processed
Normalized == npc = "done" /\ Len(results) = 1

\* C6: a tab-delimited result with H header columns and R data rows of exactly
\* H fields each gives R records, each with the H trimmed header tokens as its
\* keys, in row order, and nothing in the error list.
C6_RectangularTextGivesOneRecordPerRow ==
    (Normalized /\ IsRectangular(results[1].text)) =>
        /\ error_messages = <<>>
        /\ Len(processed_data) = Len(DataRows(results[1].text))
        /\ \A k \in 1..Len(processed_data) :
              /\ processed_data[k].kind = "record"
              /\ KeysOf(processed_data[k]) = TrimmedHeader(results[1].text)
              /\ ValuesOf(processed_data[k]) = DataRows(results[1].text)[k]

\* C7: in the tab branch a data row with fewer than H fields gives a record
\* in which every header key beyond the row's last field is present with the
\* empty text as its value.
C7_ShortRowsArePadded ==
    (/\ Normalized
     /\ Contains(results[1].text, <<"\t">>)
     /\ ~HasMarker(results[1].text))
    => \A k \in 1..Len(DataRows(results[1].text)) :
          Len(DataRows(results[1].text)[k]) < Len(HeaderOf(results[1].text)) =>
              /\ k <= Len(processed_data)
              /\ processed_data[k].kind = "record"
              /\ \A j \in (Len(DataRows(results[1].text)[k]) + 1)
                              ..Len(HeaderOf(results[1].text)) :
                    /\ HasKey(processed_data[k].row, TrimmedHeader(results[1].text)[j])
                    /\ Get(processed_data[k].row, TrimmedHeader(results[1].text)[j]) = <<>>

\* C8: a tab-free result of exactly two lines gives exactly one record
\* {trimmed header: trimmed value} and nothing in the error list.
C8_TwoLinesGiveOneRecord ==
    (/\ Normalized
     /\ ~Contains(results[1].text, <<"\t">>)
     /\ ~HasMarker(results[1].text)
     /\ Len(RawLines(results[1].text)) = 2)
    => /\ error_messages = <<>>
       /\ processed_data =
              <<Record(<< <<Strip(RawLines(results[1].text)[1]),
                            Strip(RawLines(results[1].text)[2])>> >>)>>

\* C9: a single-line result containing "no results found" in any letter case
\* goes to the error list and gives no entry of data.
C9_NoResultsGoesToErrors ==
    (/\ Normalized
     /\ ~Contains(results[1].text, <<"\n">>)
     /\ Contains(Lower(results[1].text), msg_no_results_found))
    => /\ error_messages = <<results[1].text>>
       /\ processed_data = <<>>

\* C10: a result that carries the marker "Cross-database JOIN detected" goes
\* to the error list and gives no entry of data, whatever else it contains.
C10_MarkerGoesToErrors ==
    (Normalized /\ HasMarker(results[1].text)) =>
        /\ error_messages = <<results[1].text>>
        /\ processed_data = <<>>

\* a marked result with a tab and a newline in it has been routed to the errors
C10_Witness ==
    /\ Normalized
    /\ HasMarker(results[1].text)
    /\ Contains(results[1].text, <<"\t">>)
    /\ Contains(results[1].text, <<"\n">>)
    /\ error_messages = <<results[1].text>>

\* a text query_sqlite returns for a statement that ran: the no-results text, or
\* a line of column names followed by one line per row, each with as many
\* fields as there are columns
IsExecutorText(text) ==
    \/ text = txt_no_results
    \/ /\ Len(DataRows(text)) >= 1
       /\ \A j \in 1..Len(HeaderOf(text)) : HeaderOf(text)[j] # <<>>
       /\ \A k \in 1..Len(DataRows(text)) : Len(DataRows(text)[k]) = Len(HeaderOf(text))

\* C11: whatever text the executor returned, every element of data is a
\* record; data never holds a bare string.
C11_DataHoldsOnlyRecords ==
    (Normalized /\ IsExecutorText(results[1].text)) =>
        \A k \in 1..Len(processed_data) : processed_data[k].kind = "record"

\* C12: the texts the normalizer put in the error list are delivered: the
\* response has a field error_messages that holds them, in order.
C12_ErrorMessagesAreDelivered ==
    (npc = "responded" /\ Len(error_messages) > 0) =>
        /\ "error_messages" \in DOMAIN response_data.content
        /\ response_data.content.error_messages = error_messages

\* what the batch loop is to append for the first k statements of the batch:
\* the expansions of a statement classified as cross-database, the statement
\* itself otherwise
RECURSIVE ExpectedStatements(_)
ExpectedStatements(k) ==
    IF k = 0 THEN <<>>
    ELSE ExpectedStatements(k - 1) \o
         (IF __determine_database__(sql_queries[k], dbs).value = CROSS_DATABASE_JOIN_ERROR
          THEN generate_separate_queries_for_databases(sql_queries[k], dbs)
          ELSE <<sql_queries[k]>>)
AppendedStatements == [i \in 1..Len(queries_and_results) |-> queries_and_results[i][1]]

\* C13: the pairs are appended in batch order, the expansions of a
\* cross-database statement in splitter order in place of the statement, one
\* pair for any other statement; the pair appended last holds a result of
\* executing its statement.
C13_PairsInBatchOrder ==
    /\ LET expected == ExpectedStatements(Len(sql_queries))
       IN  /\ Len(AppendedStatements) <= Len(expected)
           /\ AppendedStatements = SubSeq(expected, 1, Len(AppendedStatements))
           /\ (pc = "done") => AppendedStatements = expected
    /\ (pc = "loop") => AppendedStatements = ExpectedStatements(idx - 1)
    /\ Len(queries_and_results) > 0 =>
           \E ran \in query_sqlite(queries_and_results[Len(queries_and_results)][1],
                                   dbs, CursorOutcomes) :
               queries_and_results[Len(queries_and_results)][2] = ran.result

\* a batch of a cross-database join and a single-table statement has been
\* executed: two expansions and then the statement
C13_Witness ==
    /\ pc = "done"
    /\ Len(sql_queries) = 2
    /\ IsCrossInnerJoin(sql_queries[1])
    /\ RefSet(sql_queries[2]) = {t_Date}
    /\ Len(queries_and_results) = 3
    /\ queries_and_results[3][1] = sql_queries[2]

\* C14: query_sqlite ends with a text in every case.  A failure of the driver
\* gives "Error executing query: ..." and a failure to find a database for the
\* statement gives a text as well; a statement that ran and gave no row gives
\* "No results found.", which no failure and no result with rows gives.
\* What query_sqlite gives depends on the statement, the workspace and the
\* cursor only, and no step changes the first two: it is stated where the
\* batch starts, for every statement of the batch and every cursor outcome.
C14_FailuresAndNoRowsAreTexts ==
    (pc = "loop" /\ idx = 1) =>
    \A k \in 1..Len(sql_queries) : \A outcome \in CursorOutcomes :
        \A ran \in query_sqlite(sql_queries[k], dbs, {outcome}) :
            /\ Len(dbs) = 0 => ran.result = txt_error_executing \o txt_no_databases
            /\ ran.executed = <<>> => ran.result # txt_no_results
            /\ (ran.executed # <<>> /\ outcome.error) =>
                   /\ StartsAt(ran.result, 1, txt_error_executing)
                   /\ ran.result # txt_no_results
            /\ (ran.executed # <<>> /\ ~outcome.error /\ outcome.rows = <<>>) =>
                   ran.result = txt_no_results
            /\ (ran.executed # <<>> /\ ~outcome.error /\ outcome.rows # <<>>) =>
                   /\ Contains(ran.result, <<"\n">>)
                   /\ ran.result # txt_no_results

\* a statement has run, given no row, and its pair holds "No results found."
C14_Witness ==
    /\ pc = "done"
    /\ Len(executed) = 1
    /\ Len(queries_and_results) = 1
    /\ queries_and_results[1][2] = txt_no_results

\* C15: once a call of query_sqlite has returned, whatever its outcome, no
\* connection it opened is still open.
C15_NoConnectionLeftOpen == open_connections = <<>>

\* C16: a raw result that is a list of N records passes through unchanged:
\* data holds exactly those N records, in order, and the error list nothing.
C16_RecordListPassesThrough ==
    (Normalized /\ ~results[1].is_str) =>
        /\ processed_data =
               [i \in 1..Len(results[1].records) |-> Record(results[1].records[i])]
        /\ error_messages = <<>>

\* C17: in a tab-delimited result with an empty header cell, every record has
\* the empty text as a key, and every header whose trimmed name no other
\* header has keeps the value of its own column (the empty text where the row
\* has no such field).
C17_EmptyHeaderCellsKept ==
    (/\ Normalized
     /\ Contains(results[1].text, <<"\t">>)
     /\ ~HasMarker(results[1].text)
     /\ \E j \in 1..Len(HeaderOf(results[1].text)) : HeaderOf(results[1].text)[j] = <<>>)
    => \A k \in 1..Len(processed_data) :
          /\ processed_data[k].kind = "record"
          /\ HasKey(processed_data[k].row, <<>>)
          /\ k <= Len(DataRows(results[1].text))
          /\ \A j \in 1..Len(HeaderOf(results[1].text)) :
                (\A i \in 1..Len(HeaderOf(results[1].text)) :
                    TrimmedHeader(results[1].text)[i] = TrimmedHeader(results[1].text)[j]
                        => i = j)
                => /\ HasKey(processed_data[k].row, TrimmedHeader(results[1].text)[j])
                   /\ Get(processed_data[k].row, TrimmedHeader(results[1].text)[j])
                        = IF j <= Len(DataRows(results[1].text)[k])
                          THEN DataRows(results[1].text)[k][j]
                          ELSE <<>>

\* C18: when the pipeline completes without error, the result of
\* run_multi_agent_system has the executor's output under 'query_result', the
\* key run_multi_agent reads, and every row the executor returned is in the
\* data of the response.
C18_ExecutorOutputReachesData ==
    (/\ mpc = "responded"
     /\ ~HasKey(orchestrator_result, "error")
     /\ Len(executor_output) > 0)
    => /\ HasKey(orchestrator_result, "query_result")
       /\ \A i \in 1..Len(executor_output) :
             \E k \in 1..Len(response_data.content.data) :
                LET entry == response_data.content.data[k]
                IN  \/ entry.kind = "record" /\ entry.row = executor_output[i]
                    \/ /\ entry.kind = "raw"
                       /\ ~entry.raw.is_str
                       /\ \E j \in 1..Len(entry.raw.records) :
                             entry.raw.records[j] = executor_output[i]

\* the fragments of the cleaned response: its pieces between semicolons,
\* stripped, without the blank ones and the comments, and (selects_only)
\* without those that hold no SELECT
Fragments(cleaned, selects_only) ==
    LET kept == SelectSeq(Split(cleaned, ";"),
                    LAMBDA q : /\ Strip(q) # <<>>
                               /\ ~StartsAt(Lower(Strip(q)), 1, txt_comment)
                               /\ selects_only => Contains(Upper(q), txt_SELECT_upper))
    IN  [k \in 1..Len(kept) |-> Strip(kept[k])]

\* C19: once the batch is extracted, its statements (their closing
\* semicolon apart) are exactly the fragments obtained by splitting the
\* cleaned response on ';', in order: none spans a semicolon, none is cut
\* short, none is missing
C19_BatchIsTheSplitOfTheResponse ==
    pc # "extract" =>
        [k \in 1..Len(sql_queries) |-> RStripChar(sql_queries[k], ";")]
            = Fragments(raw_sql, TRUE)

\* the statement is a SELECT fragment of the cleaned response (its closing
\* semicolon apart) or the splitter's query for a table of such a fragment
IsOfTheResponse(statement) ==
    LET fragments == Fragments(raw_sql, TRUE)
    IN  \E k \in 1..Len(fragments) :
           \/ RStripChar(statement, ";") = fragments[k]
           \/ \E i \in 1..Len(tables_in_query(Lower(fragments[k]))) :
                 statement = separate_query(tables_in_query(Lower(fragments[k]))[i])

\* C20: a fragment of the response that does not look like a SELECT is
\* dropped silently: every statement handed to the executor, and every
\* statement of a (statement, result) pair, is a SELECT fragment of the
\* response or a splitter expansion of one; a dropped fragment is not run
\* inside another statement and nothing is run in its place
C20_DroppedFragmentsAreNotExecuted ==
    pc # "extract" =>
        /\ \A e \in 1..Len(executed) : IsOfTheResponse(executed[e].query)
        /\ \A p \in 1..Len(queries_and_results) :
              IsOfTheResponse(queries_and_results[p][1])

\* C21: within one request the executions are strictly sequential and none
\* is repeated: at most one statement is with a worker thread, and that only
\* while the loop waits for it; the statements query_sqlite was called with
\* are, in order, those of the pairs appended so far followed by the one in
\* flight, so an execution starts only when every earlier one has returned
\* and been recorded, and a failed execution is recorded and not run again.
C21_ExecutionsAreSequential ==
    /\ Len(in_flight) <= 1
    /\ (in_flight # <<>>) <=> (pc \in {"await_separate", "await_direct"})
    /\ submitted
          = [i \in 1..Len(queries_and_results) |-> queries_and_results[i][1]]
            \o in_flight
    /\ Len(executed) <= Len(submitted)

\* a batch has been served in three executions, one of which failed and was
\* recorded as its text
C21_Witness ==
    /\ pc = "done"
    /\ Len(submitted) = 3
    /\ Len(queries_and_results) = 3
    /\ \E i \in 1..3 : StartsAt(queries_and_results[i][2], 1, txt_error_executing)

\* C22: every blocking database operation of a request, the reading of the
\* tables for routing and splitting as well as the execution, runs on a
\* worker thread, never on the event loop.
C22_DatabaseWorkIsOffTheEventLoop ==
    \A i \in 1..Len(db_ops) : db_ops[i].thread = "worker"

\* the batch loop has classified the first statement of the batch as a
\* cross-database join and is handling it, or has just finished with it
FirstClassifiedCross ==
    /\ db_path = CROSS_DATABASE_JOIN_ERROR
    /\ \/ idx = 1 /\ pc \in {"split", "separate", "await_separate"}
       \/ idx = 2 /\ pc \in {"loop", "done"}

\* C23: with tables added and dropped while the request is served, a
\* statement the batch loop classified as a cross-database join is still
\* never handed to a cursor as it stands.
C23_SafeUnderSchemaChange ==
    FirstClassifiedCross =>
        \A e \in 1..Len(executed) :
            executed[e].query # __clean_sql_query__(sql_queries[1])

\* the table references a statement with columns and a clause was written with
ReferencesOf(sql) ==
    CHOOSE refs \in ClauseRefs :
        \E columns \in SelectedColumns, clause \in Clauses :
            sql = ClauseStatement(columns, refs, clause)

\* C24: two statements that reference the same tables of different
\* databases in the same order are split into the same statements, whatever
\* they select and whatever clause follows: one statement per referenced
\* table, in order, holding nothing of the original's columns and clauses.
C24_SplitDependsOnTablesOnly ==
    (/\ Len(ReferencesOf(sql_queries[1])) > 1
     /\ ReferencesOf(sql_queries[1]) = ReferencesOf(sql_queries[2]))
    => /\ generate_separate_queries_for_databases(sql_queries[1], dbs)
             = generate_separate_queries_for_databases(sql_queries[2], dbs)
       /\ LET split == generate_separate_queries_for_databases(sql_queries[1], dbs)
          IN  \A i \in 1..Len(split) :
                 \E t \in TableNames : split[i] = separate_query(Lower(t))

\* C25: the table index has one entry per lower-cased table name, and it
\* names the last-enumerated database that holds the table; a statement that
\* references only a table held by two or more databases resolves to the
\* last-enumerated of them.
C25_LastEnumeratedDatabaseWins ==
    LET mapping == table_to_db_mapping(dbs)
    IN  /\ \A i, j \in 1..Len(mapping) : mapping[i][1] = mapping[j][1] => i = j
        /\ \A t \in TableNames :
              Holders(t) # {} =>
                  /\ HasKey(mapping, Lower(t))
                  /\ Get(mapping, Lower(t)) = dbs[KnownDb(t)].path
        /\ \A t \in TableNames :
              (/\ Cardinality(Holders(t)) >= 2
               /\ sql_queries[1] = Statement(<<t>>, FALSE))
              => __determine_database__(sql_queries[1], dbs).value = dbs[KnownDb(t)].path

\* C26: what execute_query returns for a query that succeeded with zero
\* rows is told apart from what it returns when the execution fails: it is
\* nothing execute_query returns for a failed execution of the statement.
C26_NoRowsDiffersFromFailure ==
    (/\ mpc = "describe"
     /\ ~Local("outcome").error
     /\ Local("outcome").rows = <<>>)
    => \A failed \in OrchestratorOutcomes :
          failed.error =>
              executor_output
                  # execute_query(__clean_sql_query__(Strip(Local("sql_response"))),
                                  failed)

\* C27: whenever a statement of the batch was classified as a cross-database
\* JOIN (and therefore split), the answer of /agent is the fixed
\* multi-database explanation, not a description and not the no-data message
C27_SplitBatchAnswersWithTheMultiDatabaseText ==
    (/\ npc = "responded"
     /\ pc = "done"
     /\ \E k \in 1..Len(sql_queries) :
           __determine_database__(sql_queries[k], dbs).value = CROSS_DATABASE_JOIN_ERROR)
    => response_data.content.answer.kind = "multi_database"

\* C28: the two normalizers agree: for every raw result, the /agent
\* normalizer and the /multi-agent normalizer produce the same data records
\* and send the string to the error list in exactly the same cases
C28_NormalizersAgree ==
    (npc = "done" /\ Len(results) = 1) =>
        LET multi == multi_normalize_result(results[1], <<>>, <<>>)
        IN  /\ processed_data = multi.data
            /\ error_messages = multi.errors

\* the stages of process_question, in the order of the code
StageOrder ==
    <<"route", "table_context", "sql_generation", "validation", "execution",
      "description">>
\* the stages that have run
StagesRun == {stages[i] : i \in 1..Len(stages)}
\* the selected table is a configured table and the cleaned response of the
\* SQL agent starts with SELECT or WITH, in any case of the letters
GateOpen ==
    /\ HasKey(frame, "routing_result")
    /\ Local("routing_result").has_table
    /\ Local("routing_result").selected_table \in table_configs
    /\ HasKey(frame, "sql_response")
    /\ LET cleaned == Upper(__clean_sql_query__(Strip(Local("sql_response"))))
       IN  \/ StartsAt(cleaned, 1, <<"S","E","L","E","C","T">>)
           \/ StartsAt(cleaned, 1, <<"W","I","T","H">>)

Raised == HasKey(frame, "raised")
\* the request is past run_multi_agent_system
Returned == mpc \in {"normalize", "responded"} /\ ~Raised

\* C30: process_question never raises: an exception in a stage becomes a
\* result with an 'error' entry; a result has 'error' exactly when it has none
\* of 'sql_query', 'data' and 'description'; /multi-agent answers success=false
\* (400 or 500) exactly for results with 'error' and for raised exceptions, and
\* 200 with success=true otherwise
C30_ErrorsBecomeErrorResults ==
    /\ Raised => (stages = <<>> /\ mpc = "responded" /\ orchestrator_result = <<>>)
    /\ Returned =>
          /\ orchestrator_result # <<>>
          /\ HasKey(orchestrator_result, "error") <=>
                 (/\ ~HasKey(orchestrator_result, "sql_query")
                  /\ ~HasKey(orchestrator_result, "data")
                  /\ ~HasKey(orchestrator_result, "description"))
    /\ mpc = "responded" =>
          /\ response_data.content.success <=>
                 (~Raised /\ ~HasKey(orchestrator_result, "error"))
          /\ response_data.content.success <=> response_data.status_code = 200
          /\ Raised => response_data.status_code = 500
          /\ (~Raised /\ HasKey(orchestrator_result, "error")) =>
                 response_data.status_code = 400

\* the SQL agent's call failed in process_question, and the request was
\* answered with the error result of the except clause
C30_Witness ==
    /\ mpc = "responded"
    /\ stages = <<"route", "table_context", "sql_generation">>
    /\ HasKey(orchestrator_result, "user_question")
    /\ response_data.status_code = 400
    /\ ~response_data.content.success
====
